---- MODULE Spec2Model ----
(***************************************************************************)
(* Model of the imaged fingerprint index (internal/index: BoltStore,       *)
(* SQLiteStore, MemoryStore) and of the engine operations built on it      *)
(* (internal/engine: ScanFolder, FindExactDuplicates, FindNearDuplicates,  *)
(* CleanDuplicates) together with the similarity comparator                *)
(* (internal/similarity).                                                  *)
(*                                                                         *)
(* Representation choices:                                                 *)
(*  - an ImageID ("img_" + 16 hex digits) is a natural number; the byte    *)
(*    order of the fixed-width hex strings is the numeric order;           *)
(*  - a SHA-256 digest and a file path are natural numbers (names);        *)
(*  - a perceptual hash is a uint64 whose upper 33 bits are zero in every  *)
(*    sample, held as a natural number below 2^31;                         *)
(*  - a bolt bucket is a function from the keys present to their values;   *)
(*    ForEach visits the keys in ascending byte order;                     *)
(*  - a similarity is the exact rational <<num, den>>.                     *)
(***************************************************************************)
EXTENDS Integers, Sequences, FiniteSets, TLC

VARIABLES fingerprints, sha256_index, path_index, hash_index, files, clock, calls, ret,
          mem, sql, rets, goroutines, runtime, ctx, scan, dirs, moved, report,
          cmp, analysis, walk, pool

vars == <<fingerprints, sha256_index, path_index, hash_index, files, clock, calls, ret,
          mem, sql, rets, goroutines, runtime, ctx, scan, dirs, moved, report,
          cmp, analysis, walk, pool>>

storeVars == <<fingerprints, sha256_index, path_index, hash_index>>

\* a MemoryStore and a SQLiteStore given the same calls as the BoltStore, and
\* what their last call returned
backendVars == <<mem, sql, rets>>

\* the goroutines calling the MemoryStore and the Go runtime they run on
memVars == <<goroutines, runtime>>

\* the context given to Engine.ScanFolder and the position of that call
scanVars == <<ctx, scan>>

\* the directories and files CleanDuplicates made, and the report it returned
cleanVars == <<dirs, moved, report>>

engineVars == <<memVars, scanVars, cleanVars>>

\* the last call of the comparator and of the quality analyzer
libVars == <<cmp, analysis>>

\* the goroutines of Scanner.ScanFolder and of the WorkerPool
poolVars == <<walk, pool>>

(***************************************************************************)
(* Bounds                                                                  *)
(***************************************************************************)
MaxID == 4

\* calls made to the index store
MaxCalls == 3

\* file writes and scans of the directory
MaxSteps == 4

\* calls to the index store during which a Put can fail
MaxFaultCalls == 2

MaxFiles == 3

MaxClock == 6

(***************************************************************************)
(* uint64 arithmetic used by the index and the comparator                  *)
(***************************************************************************)
RECURSIVE BitAnd(_, _)
BitAnd(a, b) ==
    IF a = 0 \/ b = 0 THEN 0
    ELSE (IF a % 2 = 1 /\ b % 2 = 1 THEN 1 ELSE 0) + 2 * BitAnd(a \div 2, b \div 2)

RECURSIVE BitXor(_, _)
BitXor(a, b) ==
    IF a = 0 THEN b
    ELSE IF b = 0 THEN a
    ELSE (IF a % 2 = b % 2 THEN 0 ELSE 1) + 2 * BitXor(a \div 2, b \div 2)

RECURSIVE popLoop(_, _)
popLoop(xor, distance) ==
    IF xor = 0 THEN distance
    ELSE popLoop(BitAnd(xor, xor - 1), distance + 1)

hammingDistance(a, b) == popLoop(BitXor(a, b), 0)

RECURSIVE Pow16(_)
Pow16(n) == IF n = 0 THEN 1 ELSE 16 * Pow16(n - 1)

\* fmt.Sprintf("%016x", hash): sixteen hex digits, most significant first.
\* The eight leading digits of a value below 2^32 are zero.
Sprintf016x(hash) ==
    [i \in 1..16 |-> IF i <= 8 THEN 0 ELSE (hash \div Pow16(16 - i)) % 16]

\* fmt.Sscanf(key, "%x", &storedHash): the value of a string of hex digits.
RECURSIVE Sscanfx(_)
Sscanfx(k) ==
    IF Len(k) = 0 THEN 0
    ELSE 16 * Sscanfx(SubSeq(k, 1, Len(k) - 1)) + k[Len(k)]

(***************************************************************************)
(* Sequences and bucket primitives                                         *)
(***************************************************************************)
Range(s) == {s[i] : i \in 1..Len(s)}

RECURSIVE SeqOfSet(_)
SeqOfSet(S) ==
    IF S = {} THEN <<>>
    ELSE LET m == CHOOSE x \in S : \A y \in S : x <= y
         IN  <<m>> \o SeqOfSet(S \ {m})

\* byte order of two keys of the same bucket (equal-length digit strings)
RECURSIVE KeyLess(_, _)
KeyLess(k1, k2) ==
    IF Len(k1) = 0 \/ Len(k2) = 0 THEN Len(k1) < Len(k2)
    ELSE IF k1[1] # k2[1] THEN k1[1] < k2[1]
    ELSE KeyLess(Tail(k1), Tail(k2))

RECURSIVE SortedKeys(_)
SortedKeys(S) ==
    IF S = {} THEN <<>>
    ELSE LET m == CHOOSE x \in S : \A y \in S \ {x} : KeyLess(x, y)
         IN  <<m>> \o SortedKeys(S \ {m})

BucketPut(b, k, v) == [x \in DOMAIN b \cup {k} |-> IF x = k THEN v ELSE b[x]]

BucketDelete(b, k) == [x \in DOMAIN b \ {k} |-> b[x]]

EmptyBucket == [x \in {} |-> 0]

(***************************************************************************)
(* Fingerprints                                                            *)
(***************************************************************************)
IDs == 1..MaxID

HashTypes == {"ahash", "phash", "dhash", "whash"}

HashOf(fp, hashType) ==
    CASE hashType = "ahash" -> fp.PHashes.AHash
      [] hashType = "phash" -> fp.PHashes.PHash
      [] hashType = "dhash" -> fp.PHashes.DHash
      [] hashType = "whash" -> fp.PHashes.WHash

\* The fingerprint bodies offered to SaveFingerprint.  Two share a digest,
\* two share a path, two tie on the quality score; the perceptual hashes are
\* at Hamming distances 1, 8 and 9 from each other and some kinds are zero.
\* FinalScore is in points of 100, Exposure in hundredths, ModifiedAt and
\* CreatedAt in seconds.  ColorHist and FeatureVec are lists of numbers, the
\* nil slice being the empty list: absent in the first body, ColorHist alone
\* in the second, both in the third.
Variants ==
    { [Metadata |-> [SHA256 |-> 1, Path |-> 1, Width |-> 4, Height |-> 3, ModifiedAt |-> 10],
       PHashes  |-> [AHash |-> 1, PHash |-> 1, DHash |-> 1, WHash |-> 0],
       Quality  |-> [FinalScore |-> 90, Exposure |-> 50],
       ColorHist |-> <<>>, FeatureVec |-> <<>>, CreatedAt |-> 1],
      [Metadata |-> [SHA256 |-> 1, Path |-> 2, Width |-> 2, Height |-> 2, ModifiedAt |-> 20],
       PHashes  |-> [AHash |-> 3, PHash |-> 3, DHash |-> 0, WHash |-> 0],
       Quality  |-> [FinalScore |-> 60, Exposure |-> 40],
       ColorHist |-> <<5>>, FeatureVec |-> <<>>, CreatedAt |-> 2],
      [Metadata |-> [SHA256 |-> 2, Path |-> 2, Width |-> 2, Height |-> 2, ModifiedAt |-> 20],
       PHashes  |-> [AHash |-> 1023, PHash |-> 0, DHash |-> 1, WHash |-> 7],
       Quality  |-> [FinalScore |-> 60, Exposure |-> 70],
       ColorHist |-> <<5>>, FeatureVec |-> <<7>>, CreatedAt |-> 2] }

ImageFingerprint(id, v) ==
    [ID |-> id, Metadata |-> v.Metadata, PHashes |-> v.PHashes, Quality |-> v.Quality,
     ColorHist |-> v.ColorHist, FeatureVec |-> v.FeatureVec, CreatedAt |-> v.CreatedAt]

SampleFingerprints == {ImageFingerprint(id, v) : id \in IDs, v \in Variants}

\* the zero value of api.ImageFingerprint (a missing map entry)
ZeroFingerprint ==
    [ID |-> 0,
     Metadata |-> [SHA256 |-> 0, Path |-> 0, Width |-> 0, Height |-> 0, ModifiedAt |-> 0],
     PHashes  |-> [AHash |-> 0, PHash |-> 0, DHash |-> 0, WHash |-> 0],
     Quality  |-> [FinalScore |-> 0, Exposure |-> 0],
     ColorHist |-> <<>>, FeatureVec |-> <<>>, CreatedAt |-> 0]

\* encoding/json of an ImageFingerprint: the record as the list of its
\* field values, and back.  An omitempty list that is empty is left out and
\* read back as the nil slice.
jsonMarshal(fp) ==
    <<fp.ID, fp.Metadata.SHA256, fp.Metadata.Path, fp.Metadata.Width,
      fp.Metadata.Height, fp.Metadata.ModifiedAt,
      fp.PHashes.AHash, fp.PHashes.PHash, fp.PHashes.DHash, fp.PHashes.WHash,
      fp.Quality.FinalScore, fp.Quality.Exposure,
      fp.ColorHist, fp.FeatureVec, fp.CreatedAt>>

jsonUnmarshal(data) ==
    [ID |-> data[1],
     Metadata |-> [SHA256 |-> data[2], Path |-> data[3], Width |-> data[4],
                   Height |-> data[5], ModifiedAt |-> data[6]],
     PHashes  |-> [AHash |-> data[7], PHash |-> data[8], DHash |-> data[9], WHash |-> data[10]],
     Quality  |-> [FinalScore |-> data[11], Exposure |-> data[12]],
     ColorHist |-> data[13], FeatureVec |-> data[14], CreatedAt |-> data[15]]

(***************************************************************************)
(* BoltStore (internal/index/boltdb.go).  A database value db holds the    *)
(* buckets; every operation below is one bolt transaction.                 *)
(***************************************************************************)
DB(fps, sha, path, hidx) ==
    [fingerprints |-> fps, sha256_index |-> sha, path_index |-> path, hash_index |-> hidx]

\* initBuckets: every bucket exists and is empty
initBuckets ==
    DB(EmptyBucket, EmptyBucket, EmptyBucket, [t \in HashTypes |-> EmptyBucket])

updateHashIndex(bucket, hash, imageID) ==
    IF hash = 0 THEN bucket
    ELSE LET key    == Sprintf016x(hash)
             images == IF key \in DOMAIN bucket THEN bucket[key] ELSE <<>>
             found  == \E i \in 1..Len(images) : images[i] = imageID
         IN  IF ~found THEN BucketPut(bucket, key, Append(images, imageID))
             ELSE bucket

BoltSaveFingerprint(db, fp) ==
    DB(BucketPut(db.fingerprints, fp.ID, jsonMarshal(fp)),
       BucketPut(db.sha256_index, fp.Metadata.SHA256, fp.ID),
       BucketPut(db.path_index, fp.Metadata.Path, fp.ID),
       [t \in HashTypes |-> updateHashIndex(db.hash_index[t], HashOf(fp, t), fp.ID)])

\* GetFingerprint: found tells ErrImageNotFound apart
BoltHasFingerprint(db, imageID) == imageID \in DOMAIN db.fingerprints

BoltGetFingerprint(db, imageID) == jsonUnmarshal(db.fingerprints[imageID])

\* GetAllFingerprints: bucket.ForEach over the primary bucket, in key order
BoltGetAllFingerprints(db) ==
    LET keys == SeqOfSet(DOMAIN db.fingerprints)
    IN  [i \in 1..Len(keys) |-> jsonUnmarshal(db.fingerprints[keys[i]])]

removeFromHashIndex(bucket, hash, imageID) ==
    IF hash = 0 THEN bucket
    ELSE LET key == Sprintf016x(hash)
         IN  IF key \notin DOMAIN bucket THEN bucket
             ELSE LET images    == bucket[key]
                      newImages == SelectSeq(images, LAMBDA id : id # imageID)
                  IN  IF Len(newImages) = 0 THEN BucketDelete(bucket, key)
                      ELSE BucketPut(bucket, key, newImages)

\* DeleteFingerprint on a stored id (a missing id returns ErrImageNotFound
\* and the transaction is rolled back)
BoltDeleteFingerprint(db, imageID) ==
    LET fp == BoltGetFingerprint(db, imageID)
    IN  DB(BucketDelete(db.fingerprints, imageID),
           BucketDelete(db.sha256_index, fp.Metadata.SHA256),
           BucketDelete(db.path_index, fp.Metadata.Path),
           [t \in HashTypes |-> removeFromHashIndex(db.hash_index[t], HashOf(fp, t), imageID)])

\* the fingerprints of the ids of a list that the primary bucket holds
RECURSIVE fetchFingerprints(_, _)
fetchFingerprints(db, imageIDs) ==
    IF Len(imageIDs) = 0 THEN <<>>
    ELSE LET rest == fetchFingerprints(db, Tail(imageIDs))
         IN  IF Head(imageIDs) \in DOMAIN db.fingerprints
             THEN <<jsonUnmarshal(db.fingerprints[Head(imageIDs)])>> \o rest
             ELSE rest

\* FindBySHA256: the index value is the raw id, which json.Unmarshal
\* rejects as a list, so the "single image ID" branch is taken
BoltFindBySHA256(db, hash) ==
    IF hash \notin DOMAIN db.sha256_index THEN <<>>
    ELSE fetchFingerprints(db, <<db.sha256_index[hash]>>)

RECURSIVE forEachHash(_, _, _, _, _)
forEachHash(db, bucket, keys, targetHash, maxDistance) ==
    IF Len(keys) = 0 THEN <<>>
    ELSE LET k          == Head(keys)
             storedHash == Sscanfx(k)
             distance   == hammingDistance(targetHash, storedHash)
             here       == IF distance <= maxDistance
                           THEN fetchFingerprints(db, bucket[k])
                           ELSE <<>>
         IN  here \o forEachHash(db, bucket, Tail(keys), targetHash, maxDistance)

BoltFindSimilarHashes(db, targetHash, maxDistance, hashType) ==
    LET bucket == db.hash_index[hashType]
    IN  forEachHash(db, bucket, SortedKeys(DOMAIN bucket), targetHash, maxDistance)

(***************************************************************************)
(* Comparator (internal/similarity).  A per-kind similarity is a number of *)
(* 1/640ths, a weight a number of tenths, a weighted similarity the exact  *)
(* rational num/den, a threshold a number of hundredths.                   *)
(***************************************************************************)
AHashWeight == 2

PHashWeight == 4

DHashWeight == 3

WHashWeight == 1

Max(a, b) == IF a >= b THEN a ELSE b

Min(a, b) == IF a <= b THEN a ELSE b

compareAHash(hash1, hash2) ==
    LET distance == hammingDistance(hash1, hash2)
    IN  Max(0, 10 * (64 - distance))

\* variant of comparePHash: the penalty of the medium band at every distance
comparePHashPenalized(hash1, hash2) ==
    LET distance == hammingDistance(hash1, hash2)
    IN  9 * (64 - distance)

comparePHash(hash1, hash2) ==
    LET distance == hammingDistance(hash1, hash2)
        s64      == 64 - distance
    IN  IF 10 * s64 > 576 THEN 10 * s64
        ELSE IF 10 * s64 > 448 THEN 9 * s64
        ELSE 8 * s64

compareDHash(hash1, hash2) ==
    LET distance == hammingDistance(hash1, hash2)
    IN  10 * (64 - distance)

compareWHash(hash1, hash2) ==
    LET distance == hammingDistance(hash1, hash2)
        s64      == 64 - distance
    IN  IF 10 * s64 > 384 THEN Min(640, 11 * s64)
        ELSE 10 * s64

\* variant of kindTerm: the kind takes part when either hash is non-zero
kindTermEither(weight, h1, h2, similarity) ==
    IF weight > 0 /\ (h1 # 0 \/ h2 # 0) THEN <<similarity * weight, weight>> ELSE <<0, 0>>

\* one "if weight > 0 && both hashes non-zero" block: <<similarity * weight, weight>>
kindTerm(weight, h1, h2, similarity) ==
    IF weight > 0 /\ h1 # 0 /\ h2 # 0 THEN <<similarity * weight, weight>> ELSE <<0, 0>>

CompareFingerprints(fp1, fp2) ==
    LET a == kindTerm(AHashWeight, fp1.PHashes.AHash, fp2.PHashes.AHash,
                      compareAHash(fp1.PHashes.AHash, fp2.PHashes.AHash))
        p == kindTerm(PHashWeight, fp1.PHashes.PHash, fp2.PHashes.PHash,
                      comparePHash(fp1.PHashes.PHash, fp2.PHashes.PHash))
        d == kindTerm(DHashWeight, fp1.PHashes.DHash, fp2.PHashes.DHash,
                      compareDHash(fp1.PHashes.DHash, fp2.PHashes.DHash))
        w == kindTerm(WHashWeight, fp1.PHashes.WHash, fp2.PHashes.WHash,
                      compareWHash(fp1.PHashes.WHash, fp2.PHashes.WHash))
        totalSimilarity == a[1] + p[1] + d[1] + w[1]
        totalWeight     == a[2] + p[2] + d[2] + w[2]
    IN  IF totalWeight = 0 THEN [num |-> 0, den |-> 1]
        ELSE [num |-> Max(0, Min(640 * totalWeight, totalSimilarity)),
              den |-> 640 * totalWeight]

\* variant of AtLeast: the comparison is made against the comparator's
\* configured MinSimilarity (0.8) and not against the threshold argument
AtLeastMinSimilarity(similarity, threshold) == similarity.num * 100 >= 80 * similarity.den

\* similarity >= threshold, the threshold in hundredths
AtLeast(similarity, threshold) == similarity.num * 100 >= threshold * similarity.den

(***************************************************************************)
(* Engine: duplicate grouping (internal/engine)                            *)
(***************************************************************************)
PolicyHighestQuality == 0

PolicyHighestResolution == 1

PolicyBestExposure == 2

PolicyOldest == 3

PolicyNewest == 4

Abs(x) == IF x < 0 THEN -x ELSE x

calculateImageScore(fp, policy) ==
    CASE policy = PolicyHighestQuality    -> fp.Quality.FinalScore
      [] policy = PolicyHighestResolution -> fp.Metadata.Width * fp.Metadata.Height
      [] policy = PolicyBestExposure      -> 100 - Abs(fp.Quality.Exposure - 50) * 2
      [] policy = PolicyOldest            -> -fp.Metadata.ModifiedAt
      [] policy = PolicyNewest            -> fp.Metadata.ModifiedAt
      [] OTHER                            -> fp.Quality.FinalScore

\* fpMap of selectBestImage and calculateGroupConfidence: the last
\* fingerprint of the list with the id, the zero value when there is none
fpMapHas(fps, id) == \E i \in 1..Len(fps) : fps[i].ID = id

fpMapGet(fps, id) ==
    IF fpMapHas(fps, id)
    THEN fps[CHOOSE i \in 1..Len(fps) :
                 fps[i].ID = id /\ \A j \in (i + 1)..Len(fps) : fps[j].ID # id]
    ELSE ZeroFingerprint

RECURSIVE bestLoop(_, _, _, _, _)
bestLoop(images, fps, policy, bestImage, bestScore) ==
    IF Len(images) = 0 THEN bestImage
    ELSE LET imgID == Head(images)
         IN  IF ~fpMapHas(fps, imgID)
             THEN bestLoop(Tail(images), fps, policy, bestImage, bestScore)
             ELSE LET score == calculateImageScore(fpMapGet(fps, imgID), policy)
                  IN  IF score > bestScore
                      THEN bestLoop(Tail(images), fps, policy, imgID, score)
                      ELSE bestLoop(Tail(images), fps, policy, bestImage, bestScore)

selectBestImage(images, fps, policy) ==
    IF Len(images) = 0 THEN 0
    ELSE bestLoop(Tail(images), fps, policy, images[1],
                  calculateImageScore(fpMapGet(fps, images[1]), policy))

\* variant of removeElement: drops the first element of the slice whatever
\* the element asked for
removeElementFirst(slice, element) == Tail(slice)

removeElement(slice, element) == SelectSeq(slice, LAMBDA item : item # element)

\* variant of hashGroupOf: the map is keyed by Metadata.Path
hashGroupOfPath(fps, sha) ==
    LET idx == SelectSeq([i \in 1..Len(fps) |-> i], LAMBDA i : fps[i].Metadata.Path = sha)
    IN  [k \in 1..Len(idx) |-> fps[idx[k]].ID]

\* hashGroups[sha]: the ids with that digest, in the order of the list
hashGroupOf(fps, sha) ==
    LET idx == SelectSeq([i \in 1..Len(fps) |-> i], LAMBDA i : fps[i].Metadata.SHA256 = sha)
    IN  [k \in 1..Len(idx) |-> fps[idx[k]].ID]

hashGroupKeys(fps) == {fps[i].Metadata.SHA256 : i \in 1..Len(fps)}

\* the loop over hashGroups, visiting the digests in the order `order`
RECURSIVE exactLoop(_, _, _)
exactLoop(fps, order, groupCounter) ==
    IF Len(order) = 0 THEN <<>>
    ELSE LET imageIDs == hashGroupOf(fps, Head(order))
         IN  IF Len(imageIDs) > 1
             THEN LET mainImage == selectBestImage(imageIDs, fps, PolicyHighestQuality)
                  IN  <<[GroupID      |-> <<"exact", groupCounter>>,
                         MainImage    |-> mainImage,
                         DuplicateIDs |-> removeElement(imageIDs, mainImage),
                         Reason       |-> "exact",
                         Confidence   |-> [num |-> 1, den |-> 1]]>>
                      \o exactLoop(fps, Tail(order), groupCounter + 1)
             ELSE exactLoop(fps, Tail(order), groupCounter)

\* the orders in which a Go map range may visit the keys
Orders(S) == {o \in [1..Cardinality(S) -> S] : Range(o) = S}

EngineFindExactDuplicates(fps, order) == exactLoop(fps, order, 0)

\* every denominator CompareFingerprints returns (640 * a weight total of
\* 1..10 tenths, or 1) divides 640 * 2520
inUnits(s) == s.num * ((640 * 2520) \div s.den)

\* totalSimilarity of calculateGroupConfidence over the pairs i < j, in
\* units of 1/(640 * 2520)
RECURSIVE sumPairs(_, _, _)
sumPairs(images, fps, pairs) ==
    IF pairs = {} THEN 0
    ELSE LET pr == CHOOSE x \in pairs : TRUE
         IN  inUnits(CompareFingerprints(fpMapGet(fps, images[pr[1]]),
                                         fpMapGet(fps, images[pr[2]])))
             + sumPairs(images, fps, pairs \ {pr})

\* a variant that compares only the first image with the others
calculateGroupConfidenceSeedOnly(images, fps) ==
    IF Len(images) < 2 THEN [num |-> 0, den |-> 1]
    ELSE LET pairs == {pr \in {1} \X (1..Len(images)) :
                          /\ pr[1] < pr[2]
                          /\ fpMapHas(fps, images[pr[1]])
                          /\ fpMapHas(fps, images[pr[2]])}
             comparisons == Cardinality(pairs)
         IN  IF comparisons = 0 THEN [num |-> 0, den |-> 1]
             ELSE [num |-> sumPairs(images, fps, pairs),
                   den |-> 640 * 2520 * comparisons]

calculateGroupConfidence(images, fps) ==
    IF Len(images) < 2 THEN [num |-> 0, den |-> 1]
    ELSE LET pairs == {pr \in (1..Len(images)) \X (1..Len(images)) :
                          /\ pr[1] < pr[2]
                          /\ fpMapHas(fps, images[pr[1]])
                          /\ fpMapHas(fps, images[pr[2]])}
             comparisons == Cardinality(pairs)
         IN  IF comparisons = 0 THEN [num |-> 0, den |-> 1]
             ELSE [num |-> sumPairs(images, fps, pairs),
                   den |-> 640 * 2520 * comparisons]

\* the inner loop of FindNearDuplicates: <<similarImages, processed>>
RECURSIVE nearInner(_, _, _, _, _, _)
nearInner(fps, fp1, j, threshold, similarImages, processed) ==
    IF j > Len(fps) THEN <<similarImages, processed>>
    ELSE LET fp2 == fps[j]
         IN  IF fp2.ID \in processed
             THEN nearInner(fps, fp1, j + 1, threshold, similarImages, processed)
             ELSE IF AtLeast(CompareFingerprints(fp1, fp2), threshold)
             THEN nearInner(fps, fp1, j + 1, threshold,
                            Append(similarImages, fp2.ID), processed \cup {fp2.ID})
             ELSE nearInner(fps, fp1, j + 1, threshold, similarImages, processed)

RECURSIVE nearOuter(_, _, _, _, _)
nearOuter(fps, i, threshold, processed, groupCounter) ==
    IF i > Len(fps) THEN <<>>
    ELSE LET fp1 == fps[i]
         IN  IF fp1.ID \in processed
             THEN nearOuter(fps, i + 1, threshold, processed, groupCounter)
             ELSE LET r == nearInner(fps, fp1, i + 1, threshold, <<fp1.ID>>,
                                     processed \cup {fp1.ID})
                      similarImages == r[1]
                  IN  IF Len(similarImages) > 1
                      THEN LET mainImage ==
                                   selectBestImage(similarImages, fps, PolicyHighestQuality)
                           IN  <<[GroupID      |-> <<"near", groupCounter>>,
                                  MainImage    |-> mainImage,
                                  DuplicateIDs |-> removeElement(similarImages, mainImage),
                                  Reason       |-> "near",
                                  Confidence   |-> calculateGroupConfidence(similarImages, fps)]>>
                               \o nearOuter(fps, i + 1, threshold, r[2], groupCounter + 1)
                      ELSE nearOuter(fps, i + 1, threshold, r[2], groupCounter)

EngineFindNearDuplicates(fps, threshold) == nearOuter(fps, 1, threshold, {}, 0)

(***************************************************************************)
(* Engine: scanning (internal/engine ScanFolder, processImage, loadImage)  *)
(***************************************************************************)
\* HashConfig of DefaultConfig
ComputeAHash == TRUE

ComputePHash == TRUE

ComputeDHash == TRUE

ComputeWHash == FALSE

\* File contents.  Contents 1 and 2 are the bytes of two pictures, content
\* 3 is the bytes "fake image data", which no registered decoder accepts.
\* The pixel kernels (image.Decode, the four hash kernels, the quality
\* analyzer) are deterministic functions of the bytes, given by table.
Contents == {1, 2, 3}

NoFile == [bytes |-> 0, mtime |-> 0]

Paths == 1..MaxFiles

imageDecodes(bytes) == bytes \in {1, 2}

Picture(bytes) ==
    IF bytes = 1
    THEN [Width |-> 4, Height |-> 3, AHash |-> 1, PHash |-> 1, DHash |-> 1, WHash |-> 1,
          FinalScore |-> 90, Exposure |-> 50]
    ELSE [Width |-> 2, Height |-> 2, AHash |-> 3, PHash |-> 3, DHash |-> 0, WHash |-> 3,
          FinalScore |-> 60, Exposure |-> 40]

\* computeFileHash: SHA-256 of the bytes, one digest per content
computeFileHash(bytes) == bytes

\* generateImageID: "img_" + the first 8 bytes of SHA-256(path + time.Now()),
\* one id per (path, instant)
generateImageID(path, now) == now * (MaxFiles + 1) + path

\* processImage on a file that loadImage accepts
processImage(path, file, now) ==
    LET img == Picture(file.bytes)
    IN  [ID |-> generateImageID(path, now),
         Metadata |-> [SHA256 |-> computeFileHash(file.bytes), Path |-> path,
                       Width |-> img.Width, Height |-> img.Height,
                       ModifiedAt |-> file.mtime],
         PHashes  |-> [AHash |-> IF ComputeAHash THEN img.AHash ELSE 0,
                       PHash |-> IF ComputePHash THEN img.PHash ELSE 0,
                       DHash |-> IF ComputeDHash THEN img.DHash ELSE 0,
                       WHash |-> IF ComputeWHash THEN img.WHash ELSE 0],
         Quality  |-> [FinalScore |-> img.FinalScore, Exposure |-> img.Exposure],
         ColorHist |-> <<>>, FeatureVec |-> <<>>, CreatedAt |-> now]

\* Scanner.ScanFolder on the one directory: its image files, in name order
scannerScanFolder(fs) == SeqOfSet({p \in Paths : fs[p] # NoFile})

\* the loop of Engine.ScanFolder over imagePaths: <<db, clock, processed>>
RECURSIVE scanLoop(_, _, _, _, _)
scanLoop(fs, imagePaths, db, now, processed) ==
    IF Len(imagePaths) = 0 THEN <<db, now, processed>>
    ELSE LET path == Head(imagePaths)
         IN  IF ~imageDecodes(fs[path].bytes)
             THEN scanLoop(fs, Tail(imagePaths), db, now + 1, processed)
             ELSE scanLoop(fs, Tail(imagePaths),
                           BoltSaveFingerprint(db, processImage(path, fs[path], now)),
                           now + 1, processed + 1)

(***************************************************************************)
(* MemoryStore (internal/index): three Go maps                             *)
(***************************************************************************)
NewMemoryStore ==
    [fingerprints |-> EmptyBucket, sha256Index |-> EmptyBucket, pathIndex |-> EmptyBucket]

MemSaveFingerprint(m, fp) ==
    [fingerprints |-> BucketPut(m.fingerprints, fp.ID, fp),
     sha256Index  |-> BucketPut(m.sha256Index, fp.Metadata.SHA256, fp.ID),
     pathIndex    |-> BucketPut(m.pathIndex, fp.Metadata.Path, fp.ID)]

\* the outcome of a read: the error and the fingerprints returned
Outcome(err, fps) == [err |-> err, fps |-> fps]

MemGetFingerprint(m, imageID) ==
    IF imageID \notin DOMAIN m.fingerprints THEN Outcome("ErrImageNotFound", {})
    ELSE Outcome("nil", {m.fingerprints[imageID]})

\* the range over the map takes any order: the fingerprints as a set
MemGetAllFingerprints(m) ==
    Outcome("nil", {m.fingerprints[id] : id \in DOMAIN m.fingerprints})

MemFindBySHA256(m, hash) ==
    IF hash \notin DOMAIN m.sha256Index THEN Outcome("nil", {})
    ELSE IF m.sha256Index[hash] \notin DOMAIN m.fingerprints THEN Outcome("nil", {})
    ELSE Outcome("nil", {m.fingerprints[m.sha256Index[hash]]})

MemFindSimilarHashes(m, targetHash, maxDistance, hashType) ==
    Outcome("nil", {fp \in {m.fingerprints[id] : id \in DOMAIN m.fingerprints} :
                       /\ HashOf(fp, hashType) # 0
                       /\ hammingDistance(targetHash, HashOf(fp, hashType)) <= maxDistance})

\* <<store, error>>
MemDeleteFingerprint(m, imageID) ==
    IF imageID \notin DOMAIN m.fingerprints THEN <<m, "ErrImageNotFound">>
    ELSE LET fp == m.fingerprints[imageID]
         IN  <<[fingerprints |-> BucketDelete(m.fingerprints, imageID),
                sha256Index  |-> BucketDelete(m.sha256Index, fp.Metadata.SHA256),
                pathIndex    |-> BucketDelete(m.pathIndex, fp.Metadata.Path)],
               "nil">>

(***************************************************************************)
(* SQLiteStore (internal/index/sqlite.go).  The fingerprints table is the  *)
(* list of its rows in rowid order; sha256_index and path_index have their *)
(* key as primary key; perceptual_index is a set of rows.                  *)
(***************************************************************************)
NULL == [null |-> TRUE, text |-> <<>>]

Text(t) == [null |-> FALSE, text |-> t]

\* the nil []byte of an absent list is bound as NULL, a list as its JSON text
jsonColumn(list) == IF list # <<>> THEN Text(list) ELSE NULL

jsonMetadata(md) == <<md.SHA256, md.Path, md.Width, md.Height, md.ModifiedAt>>

jsonMetadataBack(t) ==
    [SHA256 |-> t[1], Path |-> t[2], Width |-> t[3], Height |-> t[4], ModifiedAt |-> t[5]]

jsonPHashes(ph) == <<ph.AHash, ph.PHash, ph.DHash, ph.WHash>>

jsonPHashesBack(t) == [AHash |-> t[1], PHash |-> t[2], DHash |-> t[3], WHash |-> t[4]]

jsonQuality(q) == <<q.FinalScore, q.Exposure>>

jsonQualityBack(t) == [FinalScore |-> t[1], Exposure |-> t[2]]

initSchema ==
    [fingerprints |-> <<>>, sha256_index |-> EmptyBucket, path_index |-> EmptyBucket,
     perceptual_index |-> {}]

SqlRow(fp) ==
    [id |-> fp.ID, metadata |-> jsonMetadata(fp.Metadata), phashes |-> jsonPHashes(fp.PHashes),
     quality |-> jsonQuality(fp.Quality), color_hist |-> jsonColumn(fp.ColorHist),
     feature_vec |-> jsonColumn(fp.FeatureVec), created_at |-> fp.CreatedAt]

\* DELETE FROM perceptual_index WHERE image_id = ?, then one INSERT for each
\* non-zero hash
updatePerceptualIndex(rows, fp) ==
    {r \in rows : r[3] # fp.ID}
        \cup {<<t, HashOf(fp, t), fp.ID>> : t \in {u \in HashTypes : HashOf(fp, u) # 0}}

\* INSERT OR REPLACE: a row of the same primary key is deleted and the new
\* row gets the next rowid
SqlSaveFingerprint(db, fp) ==
    [fingerprints     |-> Append(SelectSeq(db.fingerprints, LAMBDA r : r.id # fp.ID), SqlRow(fp)),
     sha256_index     |-> BucketPut(db.sha256_index, fp.Metadata.SHA256, fp.ID),
     path_index       |-> BucketPut(db.path_index, fp.Metadata.Path, fp.ID),
     perceptual_index |-> updatePerceptualIndex(db.perceptual_index, fp)]

\* rows.Scan into string variables: a NULL column is an error
ScanFails(row) == row.color_hist.null \/ row.feature_vec.null

\* the fingerprint a scanned row is decoded to; the two lists are read only
\* where the code unmarshals them
SqlDecode(row, withLists) ==
    [ID |-> row.id, Metadata |-> jsonMetadataBack(row.metadata),
     PHashes |-> jsonPHashesBack(row.phashes), Quality |-> jsonQualityBack(row.quality),
     ColorHist  |-> IF withLists /\ row.color_hist.text # <<>> THEN row.color_hist.text ELSE <<>>,
     FeatureVec |-> IF withLists /\ row.feature_vec.text # <<>> THEN row.feature_vec.text ELSE <<>>,
     CreatedAt |-> row.created_at]

SqlGetFingerprint(db, imageID) ==
    LET rows == SelectSeq(db.fingerprints, LAMBDA r : r.id = imageID)
    IN  IF Len(rows) = 0 THEN Outcome("ErrImageNotFound", {})
        ELSE IF ScanFails(rows[1]) THEN Outcome("sql: Scan error", {})
        ELSE Outcome("nil", {SqlDecode(rows[1], TRUE)})

\* a row whose Scan fails is skipped
SqlGetAllFingerprints(db) ==
    LET rows == SelectSeq(db.fingerprints, LAMBDA r : ~ScanFails(r))
    IN  Outcome("nil", {SqlDecode(rows[i], FALSE) : i \in 1..Len(rows)})

\* scanFingerprints over the join with sha256_index: the first row whose Scan
\* fails ends the call with the error
SqlFindBySHA256(db, hash) ==
    LET rows == SelectSeq(db.fingerprints,
                          LAMBDA r : hash \in DOMAIN db.sha256_index
                                     /\ db.sha256_index[hash] = r.id)
    IN  IF \E i \in 1..Len(rows) : ScanFails(rows[i]) THEN Outcome("sql: Scan error", {})
        ELSE Outcome("nil", {SqlDecode(rows[i], FALSE) : i \in 1..Len(rows)})

SqlFindSimilarHashes(db, targetHash, maxDistance, hashType) ==
    Outcome("nil", {fp \in SqlGetAllFingerprints(db).fps :
                       /\ HashOf(fp, hashType) # 0
                       /\ hammingDistance(targetHash, HashOf(fp, hashType)) <= maxDistance})

\* <<database, error>>: the error of GetFingerprint ends the call before any
\* DELETE
SqlDeleteFingerprint(db, imageID) ==
    LET got == SqlGetFingerprint(db, imageID)
    IN  IF got.err # "nil" THEN <<db, got.err>>
        ELSE LET fp == CHOOSE x \in got.fps : TRUE
             IN  <<[fingerprints     |-> SelectSeq(db.fingerprints, LAMBDA r : r.id # imageID),
                    sha256_index     |-> BucketDelete(db.sha256_index, fp.Metadata.SHA256),
                    path_index       |-> BucketDelete(db.path_index, fp.Metadata.Path),
                    perceptual_index |-> {r \in db.perceptual_index : r[3] # imageID}],
                   "nil">>

(***************************************************************************)
(* The initial values of the goroutines, the scan and the clean            *)
(***************************************************************************)
Goroutines == {1, 2}

\* a goroutine that is in no MemoryStore method
Idle == [op |-> "idle", pc |-> 0, fp |-> ZeroFingerprint, key |-> 0]

\* Engine.ScanFolder not called yet
NoScan == [pc |-> "idle", imagePaths |-> <<>>, i |-> 0, failed |-> {}, startTime |-> 0]

\* &api.CleanReport{}
NoReport == [TotalProcessed |-> 0, MovedFiles |-> 0, Errors |-> 0]

\* the zero value of api.PerceptualHashes
ZeroHashes == [AHash |-> 0, PHash |-> 0, DHash |-> 0, WHash |-> 0]

\* CompareFingerprints not called yet
NoCompare == [fp1 |-> ZeroHashes, fp2 |-> ZeroHashes, similarity |-> [num |-> 0, den |-> 1]]

\* Analyze not called yet
NoAnalysis == [called |-> FALSE]

\* Scanner.ScanFolder not called yet
NoWalk == [pc |-> "idle"]

\* no WorkerPool made yet
NoPool == [pc |-> "idle"]

(***************************************************************************)
(* State machine                                                           *)
(***************************************************************************)
CurDB == DB(fingerprints, sha256_index, path_index, hash_index)

SetDB(db) ==
    /\ fingerprints' = db.fingerprints
    /\ sha256_index' = db.sha256_index
    /\ path_index'   = db.path_index
    /\ hash_index'   = db.hash_index

\* NewEngine / NewBoltStore on a fresh index file, an empty directory
Init ==
    /\ fingerprints = initBuckets.fingerprints
    /\ sha256_index = initBuckets.sha256_index
    /\ path_index   = initBuckets.path_index
    /\ hash_index   = initBuckets.hash_index
    /\ files = [p \in Paths |-> NoFile]
    /\ clock = 0
    /\ calls = 0
    /\ ret = "nil"
    /\ mem = NewMemoryStore
    /\ sql = initSchema
    /\ rets = [memory |-> "nil", sqlite |-> "nil"]
    /\ goroutines = [g \in Goroutines |-> Idle]
    /\ runtime = [nilMaps |-> {}, fatal |-> "nil"]
    /\ ctx = "background"
    /\ scan = NoScan
    /\ dirs = {}
    /\ moved = {}
    /\ report = NoReport
    /\ cmp = NoCompare
    /\ analysis = NoAnalysis
    /\ walk = NoWalk
    /\ pool = NoPool

SaveFingerprint(fp) ==
    /\ calls < MaxCalls
    /\ SetDB(BoltSaveFingerprint(CurDB, fp))
    /\ calls' = calls + 1
    /\ ret' = "nil"
    /\ UNCHANGED <<files, clock, backendVars, engineVars, libVars, poolVars>>

DeleteFingerprint(imageID) ==
    /\ calls < MaxCalls
    /\ IF BoltHasFingerprint(CurDB, imageID)
       THEN /\ SetDB(BoltDeleteFingerprint(CurDB, imageID))
            /\ calls' = calls + 1
            /\ ret' = "nil"
       ELSE /\ UNCHANGED <<storeVars, calls>>
            /\ ret' = "ErrImageNotFound"
    /\ UNCHANGED <<files, clock, backendVars, engineVars, libVars, poolVars>>

\* the environment writes a file into the scanned directory
WriteFile(path, bytes) ==
    /\ calls < MaxSteps
    /\ files' = [files EXCEPT ![path] = [bytes |-> bytes, mtime |-> clock]]
    /\ calls' = calls + 1
    /\ UNCHANGED <<storeVars, clock, ret, backendVars, engineVars, libVars, poolVars>>

ScanFolder ==
    /\ calls < MaxSteps
    /\ LET imagePaths == scannerScanFolder(files)
           r == scanLoop(files, imagePaths, CurDB, clock, 0)
       IN  /\ clock + Len(imagePaths) <= MaxClock
           /\ SetDB(r[1])
           /\ clock' = r[2]
           /\ ret' = "nil"
    /\ calls' = calls + 1
    /\ UNCHANGED <<files, backendVars, engineVars, libVars, poolVars>>

\* the index store under its write transactions
Next ==
    \/ \E fp \in SampleFingerprints : SaveFingerprint(fp)
    \/ \E imageID \in IDs : DeleteFingerprint(imageID)

Spec == Init /\ [][Next]_vars

\* the engine scanning a directory that the environment fills
NextScan ==
    \/ \E path \in Paths, bytes \in Contents : WriteFile(path, bytes)
    \/ ScanFolder

SpecScan == Init /\ [][NextScan]_vars

(***************************************************************************)
(* The read-only operations, on the current state                          *)
(***************************************************************************)
QueryHashes == {1, 3, 1023}

QueryDistances == {0, 1, 8}

QuerySHAs == {1, 2, 3}

Thresholds == {90, 99}

GetAllFingerprints == BoltGetAllFingerprints(CurDB)

FindBySHA256(hash) == BoltFindBySHA256(CurDB, hash)

FindSimilarHashes(targetHash, maxDistance, hashType) ==
    BoltFindSimilarHashes(CurDB, targetHash, maxDistance, hashType)

\* the results FindExactDuplicates may return: one per order of the map range
FindExactDuplicates ==
    LET fps == GetAllFingerprints
    IN  {EngineFindExactDuplicates(fps, order) : order \in Orders(hashGroupKeys(fps))}

FindNearDuplicates(threshold) == EngineFindNearDuplicates(GetAllFingerprints, threshold)

(***************************************************************************)
(* Vocabulary of the properties                                            *)
(***************************************************************************)
\* the primary records, decoded
Stored == {jsonUnmarshal(fingerprints[id]) : id \in DOMAIN fingerprints}

\* the ids a hash bucket lists under a key
Listed(hashType, key) ==
    IF key \in DOMAIN hash_index[hashType] THEN Range(hash_index[hashType][key]) ELSE {}

\* id is a value somewhere in a secondary index
InSomeIndex(id) ==
    \/ \E k \in DOMAIN sha256_index : sha256_index[k] = id
    \/ \E k \in DOMAIN path_index : path_index[k] = id
    \/ \E t \in HashTypes : \E k \in DOMAIN hash_index[t] : id \in Range(hash_index[t][k])

Members(g) == {g.MainImage} \cup Range(g.DuplicateIDs)

\* main image followed by the duplicates of every group, as one list
RECURSIVE AllPositions(_)
AllPositions(groups) ==
    IF Len(groups) = 0 THEN <<>>
    ELSE <<Head(groups).MainImage>> \o Head(groups).DuplicateIDs \o AllPositions(Tail(groups))

NoRepeat(s) == \A i, j \in 1..Len(s) : i # j => s[i] # s[j]

WithSHA(stored, sha) == {fp \in stored : fp.Metadata.SHA256 = sha}

StoredWithSHA(sha) == WithSHA(Stored, sha)

ByID(stored, id) == CHOOSE fp \in stored : fp.ID = id

StoredByID(id) == ByID(Stored, id)

(***************************************************************************)
(* C1 - every stored fingerprint is filed in the sha256 index, the path    *)
(* index and the index of each of its non-zero hashes under its own id,    *)
(* and every id filed in a secondary index is a stored fingerprint whose   *)
(* current sha256 / path / hash is the key it is filed under.              *)
(***************************************************************************)
C1_IndicesAgree ==
    /\ \A fp \in Stored :
          /\ fp.Metadata.SHA256 \in DOMAIN sha256_index
          /\ sha256_index[fp.Metadata.SHA256] = fp.ID
          /\ fp.Metadata.Path \in DOMAIN path_index
          /\ path_index[fp.Metadata.Path] = fp.ID
          /\ \A t \in HashTypes :
                HashOf(fp, t) # 0 => fp.ID \in Listed(t, Sprintf016x(HashOf(fp, t)))
    /\ \A k \in DOMAIN sha256_index :
          \E fp \in Stored : fp.ID = sha256_index[k] /\ fp.Metadata.SHA256 = k
    /\ \A k \in DOMAIN path_index :
          \E fp \in Stored : fp.ID = path_index[k] /\ fp.Metadata.Path = k
    /\ \A t \in HashTypes : \A k \in DOMAIN hash_index[t] :
          \A id \in Range(hash_index[t][k]) :
              \E fp \in Stored : fp.ID = id /\ Sprintf016x(HashOf(fp, t)) = k

(***************************************************************************)
(* C2 - after DeleteFingerprint(id) has returned nil, id is no key of the  *)
(* primary bucket and no value of any secondary index.                     *)
(***************************************************************************)
C2_DeleteComplete ==
    [][\A imageID \in IDs :
          (DeleteFingerprint(imageID) /\ ret' = "nil") =>
              /\ imageID \notin DOMAIN fingerprints'
              /\ ~InSomeIndex(imageID)']_vars

(***************************************************************************)
(* C3 - a SaveFingerprint of an id that is already stored leaves no entry  *)
(* filed under the old record's sha256, path or hash values (where they    *)
(* differ from the new ones) that still refers to the id.                  *)
(***************************************************************************)
C3_SaveRemovesStale ==
    [][\A fp \in SampleFingerprints :
          (SaveFingerprint(fp) /\ fp.ID \in DOMAIN fingerprints) =>
              LET old == jsonUnmarshal(fingerprints[fp.ID])
              IN  /\ old.Metadata.SHA256 # fp.Metadata.SHA256 =>
                        ~(/\ old.Metadata.SHA256 \in DOMAIN sha256_index'
                          /\ sha256_index'[old.Metadata.SHA256] = fp.ID)
                  /\ old.Metadata.Path # fp.Metadata.Path =>
                        ~(/\ old.Metadata.Path \in DOMAIN path_index'
                          /\ path_index'[old.Metadata.Path] = fp.ID)
                  /\ \A t \in HashTypes :
                        (HashOf(old, t) # 0 /\ HashOf(old, t) # HashOf(fp, t)) =>
                            LET key == Sprintf016x(HashOf(old, t))
                            IN  ~(/\ key \in DOMAIN hash_index'[t]
                                  /\ fp.ID \in Range(hash_index'[t][key]))]_vars

(***************************************************************************)
(* C4 - FindBySHA256(h) returns exactly the stored fingerprints whose      *)
(* sha256 is h: all of them, none when there is none.                      *)
(***************************************************************************)
C4_FindBySHA256Exact ==
    \A h \in QuerySHAs : Range(FindBySHA256(h)) = StoredWithSHA(h)

(***************************************************************************)
(* C5 - the index holds at most one fingerprint per file path, also after  *)
(* the same folder was scanned more than once.                             *)
(***************************************************************************)
C5_OneFingerprintPerPath ==
    \A fp1, fp2 \in Stored : fp1.Metadata.Path = fp2.Metadata.Path => fp1.ID = fp2.ID

(***************************************************************************)
(* C6 - after ScanFolder has returned nil on a fresh index for a directory *)
(* in which exactly two files have the same bytes, FindExactDuplicates     *)
(* returns exactly one group, of confidence 1, made of the fingerprints of *)
(* these two files, one as main image and the other as its one duplicate.  *)
(***************************************************************************)
Present == {p \in Paths : files[p] # NoFile}

FreshIndex == CurDB = initBuckets

TwinFiles ==
    {pq \in Present \X Present :
        /\ pq[1] < pq[2]
        /\ files[pq[1]].bytes = files[pq[2]].bytes}

OneGroupOf(groups, paths) ==
    /\ Len(groups) = 1
    /\ groups[1].Confidence = [num |-> 1, den |-> 1]
    /\ Len(groups[1].DuplicateIDs) = 1
    /\ groups[1].MainImage # groups[1].DuplicateIDs[1]
    /\ {StoredByID(id).Metadata.Path : id \in Members(groups[1])} = paths

C6_TwoIdenticalFilesOneGroup ==
    [][(FreshIndex /\ Cardinality(TwinFiles) = 1 /\ ScanFolder /\ ret' = "nil") =>
          LET pq == CHOOSE x \in TwinFiles : TRUE
          IN  (\A groups \in FindExactDuplicates : OneGroupOf(groups, {pq[1], pq[2]}))']_vars

(***************************************************************************)
(* C7 - FindExactDuplicates returns one group for each sha256 held by two  *)
(* or more stored fingerprints, its members (main image and duplicates,    *)
(* each once) being exactly the fingerprints with that sha256, and no      *)
(* other group.                                                            *)
(***************************************************************************)
C7_ExactGroupsPartition ==
    LET stored == Stored
        idsOf(fp) == {x.ID : x \in WithSHA(stored, fp.Metadata.SHA256)}
    IN  \A groups \in FindExactDuplicates :
            /\ \A i \in 1..Len(groups) :
                  /\ \E fp \in stored :
                        /\ Cardinality(idsOf(fp)) >= 2
                        /\ Members(groups[i]) = idsOf(fp)
                  /\ Len(groups[i].DuplicateIDs) + 1 = Cardinality(Members(groups[i]))
            /\ \A fp \in stored :
                  LET hits == {i \in 1..Len(groups) : Members(groups[i]) = idsOf(fp)}
                  IN  IF Cardinality(idsOf(fp)) >= 2
                      THEN Cardinality(hits) = 1
                      ELSE \A i \in 1..Len(groups) : fp.ID \notin Members(groups[i])

\* two fingerprints share a digest, a third has its own: one group of two
C7_Witness ==
    /\ Cardinality(Stored) = 3
    /\ \E groups \in FindExactDuplicates :
          Len(groups) = 1 /\ Len(groups[1].DuplicateIDs) = 1

(***************************************************************************)
(* C8 - in one result of FindExactDuplicates and in one result of          *)
(* FindNearDuplicates no image id occurs twice, the main images and the    *)
(* duplicates of all groups taken together.                                *)
(***************************************************************************)
C8_GroupsDisjoint ==
    /\ \A groups \in FindExactDuplicates : NoRepeat(AllPositions(groups))
    /\ \A threshold \in Thresholds : NoRepeat(AllPositions(FindNearDuplicates(threshold)))

\* both queries return two groups
C8_Witness ==
    /\ \E groups \in FindExactDuplicates : Len(groups) = 2
    /\ \E threshold \in Thresholds : Len(FindNearDuplicates(threshold)) = 2

(***************************************************************************)
(* C9 - every member of a group returned by FindNearDuplicates(threshold)  *)
(* has a similarity of at least threshold to another member of the group.  *)
(***************************************************************************)
Similar(fp1, fp2, threshold) ==
    LET s == CompareFingerprints(fp1, fp2)
    IN  s.num * 100 >= threshold * s.den

C9_NearSound ==
    LET stored == Stored
    IN  \A threshold \in Thresholds :
            LET groups == FindNearDuplicates(threshold)
            IN  \A i \in 1..Len(groups) : \A m \in Members(groups[i]) :
                    \E m2 \in Members(groups[i]) \ {m} :
                        Similar(ByID(stored, m), ByID(stored, m2), threshold)

\* a group of three, two members of which are not similar to each other
C9_Witness ==
    LET stored == Stored
    IN  \E threshold \in Thresholds :
            LET groups == FindNearDuplicates(threshold)
            IN  \E i \in 1..Len(groups) :
                    /\ Cardinality(Members(groups[i])) = 3
                    /\ \E m, m2 \in Members(groups[i]) :
                          m # m2 /\ ~Similar(ByID(stored, m), ByID(stored, m2), threshold)

(***************************************************************************)
(* C10 - FindSimilarHashes(target, maxDistance, kind) returns, each once,  *)
(* exactly the stored fingerprints whose current non-zero hash of the kind *)
(* is within Hamming distance maxDistance of target.                       *)
(***************************************************************************)
LinearScan(targetHash, maxDistance, hashType) ==
    {fp \in Stored : /\ HashOf(fp, hashType) # 0
                     /\ hammingDistance(targetHash, HashOf(fp, hashType)) <= maxDistance}

C10_FindSimilarIsLinearScan ==
    \A targetHash \in QueryHashes, maxDistance \in QueryDistances, hashType \in HashTypes :
        LET out == FindSimilarHashes(targetHash, maxDistance, hashType)
        IN  /\ Range(out) = LinearScan(targetHash, maxDistance, hashType)
            /\ NoRepeat(out)

(***************************************************************************)
(* C11 - a stored fingerprint whose hash of a kind is zero is listed       *)
(* nowhere in the index of that kind and is returned by FindSimilarHashes  *)
(* of that kind for no target hash (0 included) and no maxDistance (64     *)
(* included).                                                              *)
(***************************************************************************)
C11_ZeroHashNotIndexed ==
    LET stored == Stored
    IN  \A fp \in stored : \A hashType \in HashTypes :
            HashOf(fp, hashType) = 0 =>
                /\ \A k \in DOMAIN hash_index[hashType] :
                      fp.ID \notin Range(hash_index[hashType][k])
                /\ \A targetHash \in QueryHashes \cup {0} :
                      \A maxDistance \in QueryDistances \cup {64} :
                          fp \notin Range(FindSimilarHashes(targetHash, maxDistance, hashType))

(***************************************************************************)
(* BoltStore.SaveFingerprint with a failing Put.  The writes of the        *)
(* transaction function are made one after the other on the transaction's  *)
(* view tx; the first failing Put makes the function return its error.     *)
(***************************************************************************)
\* the Puts of SaveFingerprint, in the order of the code
SaveWrites == <<"fingerprints", "sha256_index", "path_index", "ahash", "phash", "dhash", "whash">>

Faults == 1..Len(SaveWrites)

\* the error a failing Put of write k is wrapped into
SaveError(k) ==
    CASE SaveWrites[k] = "fingerprints" -> "failed to store fingerprint"
      [] SaveWrites[k] = "sha256_index" -> "failed to update SHA256 index"
      [] SaveWrites[k] = "path_index"   -> "failed to update path index"
      [] OTHER                          -> "failed to update hash index"

\* the view of the transaction after write k
saveWrite(tx, fp, k) ==
    CASE SaveWrites[k] = "fingerprints" ->
             [tx EXCEPT !.fingerprints = BucketPut(@, fp.ID, jsonMarshal(fp))]
      [] SaveWrites[k] = "sha256_index" ->
             [tx EXCEPT !.sha256_index = BucketPut(@, fp.Metadata.SHA256, fp.ID)]
      [] SaveWrites[k] = "path_index" ->
             [tx EXCEPT !.path_index = BucketPut(@, fp.Metadata.Path, fp.ID)]
      [] OTHER ->
             [tx EXCEPT !.hash_index[SaveWrites[k]] =
                            updateHashIndex(@, HashOf(fp, SaveWrites[k]), fp.ID)]

\* the transaction function of SaveFingerprint when the Put of write failAt
\* fails; a write that puts nothing (zero hash, id already listed) cannot fail
RECURSIVE saveTx(_, _, _, _)
saveTx(tx, fp, k, failAt) ==
    IF k > Len(SaveWrites) THEN [db |-> tx, err |-> "nil"]
    ELSE LET next == saveWrite(tx, fp, k)
         IN  IF k = failAt /\ next # tx
             THEN [db |-> tx, err |-> SaveError(k)]
             ELSE saveTx(next, fp, k + 1, failAt)

\* variant of boltUpdate: the writes made before the error are committed
boltUpdateNoRollback(db, r) == r.db

\* bolt db.Update: commit when the function returns nil, rollback otherwise
boltUpdate(db, r) == IF r.err = "nil" THEN r.db ELSE db

SaveFingerprintFault(fp, failAt) ==
    /\ calls < MaxFaultCalls
    /\ LET r == saveTx(CurDB, fp, 1, failAt)
       IN  /\ SetDB(boltUpdate(CurDB, r))
           /\ ret' = r.err
    /\ calls' = calls + 1
    /\ UNCHANGED <<files, clock, backendVars, engineVars, libVars, poolVars>>

\* the statements of SQLiteStore.SaveFingerprint, in the order of the code,
\* with the Commit
SqlSaveStatements ==
    <<"fingerprints", "sha256_index", "path_index", "delete", "ahash", "phash", "dhash",
      "whash", "commit">>

SqlFaults == 1..Len(SqlSaveStatements)

\* the view of the transaction after statement k; no INSERT is made for a
\* zero hash
sqlSaveStatement(tx, fp, k) ==
    LET st == SqlSaveStatements[k]
    IN  CASE st = "fingerprints" ->
                 [tx EXCEPT !.fingerprints =
                                Append(SelectSeq(@, LAMBDA r : r.id # fp.ID), SqlRow(fp))]
          [] st = "sha256_index" ->
                 [tx EXCEPT !.sha256_index = BucketPut(@, fp.Metadata.SHA256, fp.ID)]
          [] st = "path_index" ->
                 [tx EXCEPT !.path_index = BucketPut(@, fp.Metadata.Path, fp.ID)]
          [] st = "delete" ->
                 [tx EXCEPT !.perceptual_index = {r \in @ : r[3] # fp.ID}]
          [] st \in HashTypes /\ HashOf(fp, st) # 0 ->
                 [tx EXCEPT !.perceptual_index = @ \cup {<<st, HashOf(fp, st), fp.ID>>}]
          [] OTHER -> tx

\* the body of SaveFingerprint when statement failAt fails; a statement that
\* is not executed (zero hash) cannot fail
RECURSIVE sqlSaveTx(_, _, _, _)
sqlSaveTx(tx, fp, k, failAt) ==
    IF k > Len(SqlSaveStatements) THEN [db |-> tx, err |-> "nil"]
    ELSE IF k = failAt /\ ~(SqlSaveStatements[k] \in HashTypes
                            /\ HashOf(fp, SqlSaveStatements[k]) = 0)
    THEN [db |-> tx, err |-> "sql: statement failed"]
    ELSE sqlSaveTx(sqlSaveStatement(tx, fp, k), fp, k + 1, failAt)

\* tx.Commit() on the last line, the deferred tx.Rollback() otherwise
sqlEnd(db, r) == IF r.err = "nil" THEN r.db ELSE db

SqlSaveFingerprintFault(fp, failAt) ==
    /\ calls < MaxFaultCalls
    /\ LET r == sqlSaveTx(sql, fp, 1, failAt)
       IN  /\ sql' = sqlEnd(sql, r)
           /\ rets' = [rets EXCEPT !.sqlite = r.err]
    /\ calls' = calls + 1
    /\ UNCHANGED <<storeVars, files, clock, ret, mem, engineVars, libVars, poolVars>>

\* the index stores when a write of a save can fail
NextFault ==
    \/ \E fp \in SampleFingerprints : SaveFingerprint(fp)
    \/ \E fp \in SampleFingerprints, failAt \in Faults : SaveFingerprintFault(fp, failAt)
    \/ \E fp \in SampleFingerprints, failAt \in {0} \cup SqlFaults :
           SqlSaveFingerprintFault(fp, failAt)

SpecFault == Init /\ [][NextFault]_vars

(***************************************************************************)
(* C12 - a SaveFingerprint that returns an error leaves the primary bucket *)
(* and every secondary index with exactly their contents of before the     *)
(* call, on the BoltStore and on the SQLiteStore.                          *)
(***************************************************************************)
\* ret and rets.sqlite are what the last SaveFingerprint of each store returned
C12_SaveAtomic ==
    [][/\ ret' # "nil" => UNCHANGED storeVars
       /\ rets'.sqlite # "nil" => UNCHANGED sql]_vars

\* a save has failed on a hash index, after its Puts into the primary bucket
\* and the sha256 and path indices, on a store that holds a fingerprint
C12_Witness ==
    /\ ret = "failed to update hash index"
    /\ Stored # {}

(***************************************************************************)
(* The three backends under the same calls                                 *)
(***************************************************************************)
BoltOutcomeGet(db, imageID) ==
    IF BoltHasFingerprint(db, imageID) THEN Outcome("nil", {BoltGetFingerprint(db, imageID)})
    ELSE Outcome("ErrImageNotFound", {})

StoresSaveFingerprint(fp) ==
    /\ calls < MaxCalls
    /\ SetDB(BoltSaveFingerprint(CurDB, fp))
    /\ mem' = MemSaveFingerprint(mem, fp)
    /\ sql' = SqlSaveFingerprint(sql, fp)
    /\ ret' = "nil"
    /\ rets' = [memory |-> "nil", sqlite |-> "nil"]
    /\ calls' = calls + 1
    /\ UNCHANGED <<files, clock, engineVars, libVars, poolVars>>

StoresDeleteFingerprint(imageID) ==
    /\ calls < MaxCalls
    /\ IF BoltHasFingerprint(CurDB, imageID)
       THEN SetDB(BoltDeleteFingerprint(CurDB, imageID)) /\ ret' = "nil"
       ELSE UNCHANGED storeVars /\ ret' = "ErrImageNotFound"
    /\ LET m == MemDeleteFingerprint(mem, imageID)
           s == SqlDeleteFingerprint(sql, imageID)
       IN  /\ mem' = m[1]
           /\ sql' = s[1]
           /\ rets' = [memory |-> m[2], sqlite |-> s[2]]
    /\ calls' = calls + 1
    /\ UNCHANGED <<files, clock, engineVars, libVars, poolVars>>

NextStores ==
    \/ \E fp \in SampleFingerprints : StoresSaveFingerprint(fp)
    \/ \E imageID \in IDs : StoresDeleteFingerprint(imageID)

SpecStores == Init /\ [][NextStores]_vars

(***************************************************************************)
(* C13 - on each backend, GetFingerprint(fp.ID) right after                *)
(* SaveFingerprint(fp) succeeds and returns a record equal to fp in every  *)
(* field, the optional lists included, also when they are absent.          *)
(***************************************************************************)
C13_SaveGetRoundTrip ==
    [][\A fp \in SampleFingerprints :
          StoresSaveFingerprint(fp) =>
              /\ MemGetFingerprint(mem', fp.ID) = Outcome("nil", {fp})
              /\ BoltOutcomeGet(CurDB', fp.ID) = Outcome("nil", {fp})
              /\ SqlGetFingerprint(sql', fp.ID) = Outcome("nil", {fp})]_vars

(***************************************************************************)
(* C14 - after the same sequence of SaveFingerprint and DeleteFingerprint  *)
(* calls the three backends have returned the same result for the last     *)
(* call, and GetFingerprint, GetAllFingerprints, FindBySHA256 and          *)
(* FindSimilarHashes return the same error and the same set of             *)
(* fingerprints on each of them.                                           *)
(***************************************************************************)
SameOutcome(memory, bolt, sqlite) == memory = bolt /\ bolt = sqlite

C14_BackendsInterchangeable ==
    /\ SameOutcome(rets.memory, ret, rets.sqlite)
    /\ \A imageID \in IDs :
          SameOutcome(MemGetFingerprint(mem, imageID), BoltOutcomeGet(CurDB, imageID),
                      SqlGetFingerprint(sql, imageID))
    /\ SameOutcome(MemGetAllFingerprints(mem), Outcome("nil", Range(GetAllFingerprints)),
                   SqlGetAllFingerprints(sql))
    /\ \A hash \in QuerySHAs :
          SameOutcome(MemFindBySHA256(mem, hash), Outcome("nil", Range(FindBySHA256(hash))),
                      SqlFindBySHA256(sql, hash))
    /\ \A targetHash \in QueryHashes, maxDistance \in QueryDistances, hashType \in HashTypes :
          SameOutcome(MemFindSimilarHashes(mem, targetHash, maxDistance, hashType),
                      Outcome("nil", Range(FindSimilarHashes(targetHash, maxDistance, hashType))),
                      SqlFindSimilarHashes(sql, targetHash, maxDistance, hashType))

(***************************************************************************)
(* MemoryStore called from several goroutines (index/store.go).  A method  *)
(* is the list of its accesses to the three maps; a goroutine inside a     *)
(* method stands at one of them.  The struct has the three maps and no     *)
(* lock: a method is entered without waiting for any other.                *)
(***************************************************************************)
\* calls made to the MemoryStore by the goroutines
MaxMemCalls == 3

MemOps ==
    {"SaveFingerprint", "GetFingerprint", "GetAllFingerprints", "FindBySHA256",
     "FindSimilarHashes", "DeleteFingerprint", "GetStats", "Close"}

Read(map) == [map |-> map, write |-> FALSE]

Write(map) == [map |-> map, write |-> TRUE]

\* the accesses of each method, in program order
Accesses(op) ==
    CASE op = "SaveFingerprint"    -> <<Write("fingerprints"), Write("sha256Index"),
                                        Write("pathIndex")>>
      [] op = "GetFingerprint"     -> <<Read("fingerprints")>>
      [] op = "GetAllFingerprints" -> <<Read("fingerprints")>>
      [] op = "FindBySHA256"       -> <<Read("sha256Index"), Read("fingerprints")>>
      [] op = "FindSimilarHashes"  -> <<Read("fingerprints")>>
      [] op = "DeleteFingerprint"  -> <<Read("fingerprints"), Write("fingerprints"),
                                        Write("sha256Index"), Write("pathIndex")>>
      [] op = "GetStats"           -> <<Read("fingerprints")>>
      [] op = "Close"              -> <<Write("fingerprints"), Write("sha256Index"),
                                        Write("pathIndex")>>
      [] OTHER                     -> <<>>

Running(g) == goroutines[g].op # "idle"

\* the access goroutine g stands at
Access(g) == Accesses(goroutines[g].op)[goroutines[g].pc]

\* two goroutines stand at accesses to the same map and one of them writes
Racing(g, h) ==
    /\ g # h
    /\ Running(g) /\ Running(h)
    /\ Access(g).map = Access(h).map
    /\ (Access(g).write \/ Access(h).write)

\* a goroutine calls a method: nothing is acquired on entry
MemCall(g, op, fp, key) ==
    /\ calls < MaxMemCalls
    /\ runtime.fatal = "nil"
    /\ ~Running(g)
    /\ goroutines' = [goroutines EXCEPT ![g] = [op |-> op, pc |-> 1, fp |-> fp, key |-> key]]
    /\ calls' = calls + 1
    /\ UNCHANGED <<storeVars, files, clock, ret, backendVars, runtime, scanVars, cleanVars,
                   libVars, poolVars>>

\* the store after the access of goroutine s
memAccess(m, s) ==
    LET map == Accesses(s.op)[s.pc].map
    IN  CASE s.op = "SaveFingerprint" ->
                 [m EXCEPT ![map] = MemSaveFingerprint(m, s.fp)[map]]
          [] s.op = "DeleteFingerprint" /\ s.pc = 2 ->
                 [m EXCEPT !.fingerprints = BucketDelete(@, s.key)]
          [] s.op = "DeleteFingerprint" /\ s.pc = 3 ->
                 [m EXCEPT !.sha256Index = BucketDelete(@, s.fp.Metadata.SHA256)]
          [] s.op = "DeleteFingerprint" /\ s.pc = 4 ->
                 [m EXCEPT !.pathIndex = BucketDelete(@, s.fp.Metadata.Path)]
          [] s.op = "Close" -> [m EXCEPT ![map] = EmptyBucket]
          [] OTHER -> m

\* the goroutine after its access: at the next one, or returned
memAdvance(m, s) ==
    CASE s.op = "DeleteFingerprint" /\ s.pc = 1 ->
             IF s.key \in DOMAIN m.fingerprints
             THEN [s EXCEPT !.pc = 2, !.fp = m.fingerprints[s.key]]
             ELSE Idle
      [] s.op = "FindBySHA256" /\ s.pc = 1 ->
             IF s.key \in DOMAIN m.sha256Index
             THEN [s EXCEPT !.pc = 2, !.key = m.sha256Index[s.key]]
             ELSE Idle
      [] OTHER ->
             IF s.pc < Len(Accesses(s.op)) THEN [s EXCEPT !.pc = @ + 1] ELSE Idle

\* a goroutine performs the access it stands at; an assignment to an entry
\* of a map that Close set to nil panics
MemStep(g) ==
    /\ runtime.fatal = "nil"
    /\ Running(g)
    /\ LET s == goroutines[g]
       IN  IF s.op = "SaveFingerprint" /\ Access(g).map \in runtime.nilMaps
           THEN /\ runtime' = [runtime EXCEPT !.fatal = "panic: assignment to entry in nil map"]
                /\ UNCHANGED <<mem, goroutines>>
           ELSE /\ mem' = memAccess(mem, s)
                /\ goroutines' = [goroutines EXCEPT ![g] = memAdvance(mem, s)]
                /\ runtime' = IF s.op = "Close"
                              THEN [runtime EXCEPT !.nilMaps = @ \cup {Access(g).map}]
                              ELSE runtime
    /\ UNCHANGED <<storeVars, files, clock, calls, ret, sql, rets, scanVars, cleanVars,
                   libVars, poolVars>>

\* the runtime notices two goroutines in one map, one of them writing
MemThrow(g, h) ==
    /\ runtime.fatal = "nil"
    /\ Racing(g, h)
    /\ runtime' = [runtime EXCEPT !.fatal =
                       IF Access(g).write /\ Access(h).write
                       THEN "fatal error: concurrent map writes"
                       ELSE "fatal error: concurrent map read and map write"]
    /\ UNCHANGED <<storeVars, files, clock, calls, ret, backendVars, goroutines,
                   scanVars, cleanVars, libVars, poolVars>>

NextMem ==
    \/ \E g \in Goroutines, fp \in SampleFingerprints :
           MemCall(g, "SaveFingerprint", fp, 0)
    \/ \E g \in Goroutines, op \in {"GetFingerprint", "DeleteFingerprint"}, id \in IDs :
           MemCall(g, op, ZeroFingerprint, id)
    \/ \E g \in Goroutines, hash \in QuerySHAs :
           MemCall(g, "FindBySHA256", ZeroFingerprint, hash)
    \/ \E g \in Goroutines,
          op \in {"GetAllFingerprints", "FindSimilarHashes", "GetStats", "Close"} :
           MemCall(g, op, ZeroFingerprint, 0)
    \/ \E g \in Goroutines : MemStep(g)
    \/ \E g, h \in Goroutines : MemThrow(g, h)

SpecMem == Init /\ [][NextMem]_vars

\* C15: the operations of a MemoryStore called from several goroutines never
\* stand in the same map at the same time with one of them writing, and the
\* run never ends in a concurrent map write
C15_NoConcurrentMapAccess ==
    /\ \A g, h \in Goroutines : ~Racing(g, h)
    /\ runtime.fatal \notin {"fatal error: concurrent map writes",
                             "fatal error: concurrent map read and map write"}

(***************************************************************************)
(* Engine.ScanFolder under a context that can be cancelled, one step for   *)
(* the discovery by the Scanner and one for each iteration of the loop     *)
(* over imagePaths.  scan.pc is the position of the call, scan.failed the  *)
(* paths for which a warning was logged.                                   *)
(***************************************************************************)
\* Engine.ScanFolder is called with a fresh context
EngineScanFolder ==
    /\ calls < MaxSteps
    /\ scan.pc \in {"idle", "returned"}
    /\ scan' = [NoScan EXCEPT !.pc = "discover", !.startTime = clock]
    /\ ctx' = "background"
    /\ calls' = calls + 1
    /\ UNCHANGED <<storeVars, files, clock, ret, backendVars, memVars, cleanVars,
                   libVars, poolVars>>

\* the caller cancels the context while the call is running
Cancel ==
    /\ scan.pc \in {"discover", "loop"}
    /\ ctx = "background"
    /\ ctx' = "cancelled"
    /\ UNCHANGED <<storeVars, files, clock, calls, ret, backendVars, memVars, scan, cleanVars,
                   libVars, poolVars>>

\* Scanner.ScanFolder: walkDirectories and the worker each return on
\* ctx.Done() before the directory is read, and the call then returns the
\* paths found so far with a nil error
scannerScanFolderCtx(c, fs) == IF c = "cancelled" THEN <<>> ELSE scannerScanFolder(fs)

\* the end of an iteration: the loop is left after the last path
loopEnd(s) == IF s.i > Len(s.imagePaths) THEN [s EXCEPT !.pc = "returned"] ELSE s

\* variant of skipImage: the loop is left at the first warning
skipImageBreak(s, path) ==
    [s EXCEPT !.failed = @ \cup {path}, !.i = Len(s.imagePaths) + 1]

\* Warnf and continue
skipImage(s, path) == [s EXCEPT !.failed = @ \cup {path}, !.i = @ + 1]

\* imagePaths, err := e.scanner.ScanFolder(ctx, folderPath); with no path the
\* loop is not entered and the call returns nil
ScannerDiscover ==
    /\ scan.pc = "discover"
    /\ LET s == loopEnd([scan EXCEPT !.pc = "loop", !.i = 1,
                                     !.imagePaths = scannerScanFolderCtx(ctx, files)])
       IN  /\ scan' = s
           /\ ret' = IF s.pc = "returned" THEN "nil" ELSE ret
    /\ UNCHANGED <<storeVars, files, clock, calls, backendVars, memVars, ctx, cleanVars,
                   libVars, poolVars>>

\* one iteration of the loop: the select on ctx.Done(), processImage,
\* SaveFingerprint; failAt is the Put that fails in the save, 0 for none
ScanImage(failAt) ==
    /\ scan.pc = "loop"
    /\ IF ctx = "cancelled"
       THEN /\ scan' = [scan EXCEPT !.pc = "returned"]
            /\ ret' = "context canceled"
            /\ UNCHANGED <<storeVars, clock>>
       ELSE /\ clock < MaxClock
            /\ LET path == scan.imagePaths[scan.i]
                   file == files[path]
                   r    == saveTx(CurDB, processImage(path, file, clock), 1, failAt)
                   s    == IF ~imageDecodes(file.bytes) \/ r.err # "nil"
                           THEN skipImage(scan, path)
                           ELSE [scan EXCEPT !.i = @ + 1]
               IN  /\ SetDB(IF imageDecodes(file.bytes) THEN boltUpdate(CurDB, r) ELSE CurDB)
                   /\ scan' = loopEnd(s)
                   /\ ret' = IF loopEnd(s).pc = "returned" THEN "nil" ELSE ret
            /\ clock' = clock + 1
    /\ UNCHANGED <<files, calls, backendVars, memVars, ctx, cleanVars, libVars, poolVars>>

\* the Puts of a save that fail during a scan: none, the primary record, an
\* entry of a hash index
ScanFaults == {0, 1, 4}

\* the engine scanning in steps a directory that the environment fills
NextScanSteps ==
    \/ \E path \in Paths, bytes \in Contents : WriteFile(path, bytes)
    \/ EngineScanFolder
    \/ Cancel
    \/ ScannerDiscover
    \/ \E failAt \in ScanFaults : ScanImage(failAt)

SpecScanSteps == Init /\ [][NextScanSteps]_vars

\* C16: a ScanFolder whose context was cancelled while it ran returns the
\* cancellation error
C16_CancelReturnsError ==
    (scan.pc = "returned" /\ ctx = "cancelled") => ret = "context canceled"

\* C17: a ScanFolder that was not cancelled returns nil, and every discovered
\* image for which no failure was logged has a fingerprint saved by this scan
C17_ImageFailureDoesNotFailScan ==
    LET stored == Stored
    IN  (scan.pc = "returned" /\ ctx = "background") =>
            /\ ret = "nil"
            /\ \A path \in Range(scan.imagePaths) \ scan.failed :
                   \E fp \in stored : /\ fp.Metadata.Path = path
                                      /\ fp.CreatedAt >= scan.startTime

\* a scan that returned after a failure on one image and a save of another
C17_Witness ==
    /\ scan.pc = "returned" /\ ctx = "background"
    /\ scan.failed # {}
    /\ Range(scan.imagePaths) \ scan.failed # {}

(***************************************************************************)
(* Engine.CleanDuplicates (internal/engine).  The filesystem is the        *)
(* scanned directory `files`, the directories made under OutputDir `dirs`  *)
(* and the files renamed into them `moved`.  A directory is <<"output", 0>>*)
(* for OutputDir itself or the GroupID of the group it was made for.       *)
(***************************************************************************)
OutputDir == <<"output", 0>>

\* CleanOptions as CleanDuplicates reads them
CleanOptions ==
    [DryRun : BOOLEAN, MinQualityScore : {0, 70}, MaxSimilarityThreshold : Thresholds]

\* what the operating system refuses during the call: creating directories
\* under OutputDir, and renaming the files of `unmovable` (at most one file)
Refusals == [denied : BOOLEAN, unmovable : {{}} \cup {{p} : p \in Paths}]

\* os.MkdirAll(dstDir, 0755), its error dropped
MkdirAll(st, dstDir, env) ==
    IF env.denied THEN st ELSE [st EXCEPT !.dirs = @ \cup {OutputDir, dstDir}]

\* os.Rename(src, dst) succeeds
renames(st, src, dstDir, env) ==
    /\ st.files[src] # NoFile
    /\ src \notin env.unmovable
    /\ dstDir \in st.dirs

\* the body both loops run for one duplicate: MkdirAll, the DryRun check,
\* Rename, and the counters; a failed Rename is logged and the loop goes on
moveFile(st, fp, groupID, options, env) ==
    LET src == fp.Metadata.Path
        st1 == MkdirAll(st, groupID, env)
    IN  IF options.DryRun THEN st1
        ELSE IF ~renames(st1, src, groupID, env)
        THEN [st1 EXCEPT !.warned = @ + 1]
        ELSE [st1 EXCEPT !.files[src] = NoFile,
                         !.moved = {f \in @ : ~(f.dir = groupID /\ f.name = src)}
                                       \cup {[dir |-> groupID, name |-> src,
                                              bytes |-> st.files[src].bytes]},
                         !.movedCount = @ + 1]

\* verifyRealBinaryMatch: the files of the group all exist, are all in the
\* index and have the same bytes
verifyRealBinaryMatch(db, fs, main, duplicates) ==
    /\ BoltHasFingerprint(db, main)
    /\ fs[BoltGetFingerprint(db, main).Metadata.Path] # NoFile
    /\ \A k \in 1..Len(duplicates) :
          /\ BoltHasFingerprint(db, duplicates[k])
          /\ fs[BoltGetFingerprint(db, duplicates[k]).Metadata.Path] # NoFile
          /\ fs[BoltGetFingerprint(db, duplicates[k]).Metadata.Path].bytes
                 = fs[BoltGetFingerprint(db, main).Metadata.Path].bytes

\* the loop over group.DuplicateIDs; minScore is the quality under which
\* a near duplicate is skipped
RECURSIVE duplicatesLoop(_, _, _, _, _, _, _)
duplicatesLoop(st, db, group, k, minScore, options, env) ==
    IF k > Len(group.DuplicateIDs) THEN st
    ELSE LET dupID == group.DuplicateIDs[k]
         IN  IF ~BoltHasFingerprint(db, dupID)
                \/ BoltGetFingerprint(db, dupID).Quality.FinalScore < minScore
             THEN duplicatesLoop(st, db, group, k + 1, minScore, options, env)
             ELSE duplicatesLoop(moveFile(st, BoltGetFingerprint(db, dupID), group.GroupID,
                                          options, env),
                                 db, group, k + 1, minScore, options, env)

RECURSIVE processExactGroups(_, _, _, _, _)
processExactGroups(st, db, groups, options, env) ==
    IF Len(groups) = 0 THEN st
    ELSE LET group == Head(groups)
         IN  IF ~verifyRealBinaryMatch(db, st.files, group.MainImage, group.DuplicateIDs)
             THEN processExactGroups(st, db, Tail(groups), options, env)
             ELSE processExactGroups(duplicatesLoop(st, db, group, 1, 0, options, env),
                                     db, Tail(groups), options, env)

RECURSIVE processNearGroups(_, _, _, _, _)
processNearGroups(st, db, groups, options, env) ==
    IF Len(groups) = 0 THEN st
    ELSE processNearGroups(duplicatesLoop(st, db, Head(groups), 1, options.MinQualityScore,
                                          options, env),
                           db, Tail(groups), options, env)

\* the filesystem and the counters after both passes; `order` is the order
\* of the map range in FindExactDuplicates
cleanRun(options, order, env) ==
    LET fps         == GetAllFingerprints
        exactGroups == EngineFindExactDuplicates(fps, order)
        nearGroups  == EngineFindNearDuplicates(fps, options.MaxSimilarityThreshold)
        st0 == [files |-> files, dirs |-> dirs, moved |-> moved, movedCount |-> 0,
                warned |-> 0]
        st1 == processExactGroups(st0, CurDB, exactGroups, options, env)
        st2 == processNearGroups([st1 EXCEPT !.movedCount = 0], CurDB, nearGroups,
                                 options, env)
    IN  [files |-> st2.files, dirs |-> st2.dirs, moved |-> st2.moved,
         warned |-> st2.warned,
         report |-> [TotalProcessed |-> Len(exactGroups) + Len(nearGroups),
                     MovedFiles     |-> st1.movedCount + st2.movedCount,
                     Errors         |-> 0]]

\* a clean may follow MaxSteps writes and scans
CleanDuplicates(options, env) ==
    /\ calls <= MaxSteps
    /\ \E order \in Orders(hashGroupKeys(GetAllFingerprints)) :
          LET r == cleanRun(options, order, env)
          IN  /\ files' = r.files
              /\ dirs' = r.dirs
              /\ moved' = r.moved
              /\ report' = r.report
    /\ ret' = "nil"
    /\ calls' = calls + 1
    /\ UNCHANGED <<storeVars, clock, backendVars, memVars, scanVars, libVars, poolVars>>

\* the engine scanning and cleaning a directory that the environment fills
NextClean ==
    \/ \E path \in Paths, bytes \in Contents : WriteFile(path, bytes)
    \/ ScanFolder
    \/ \E options \in CleanOptions, env \in Refusals : CleanDuplicates(options, env)

SpecClean == Init /\ [][NextClean]_vars

\* the step is a CleanDuplicates with DryRun = dryRun
CleanStep(dryRun) ==
    \E options \in CleanOptions, env \in Refusals :
        options.DryRun = dryRun /\ CleanDuplicates(options, env)

\* C18: a CleanDuplicates with DryRun = true leaves every file where it is,
\* creates no directory and returns no error
C18_DryRunLeavesFilesystem ==
    [][CleanStep(TRUE) => (UNCHANGED <<files, dirs, moved>> /\ ret' = "nil")]_vars

\* C19: after a live CleanDuplicates no stored fingerprint has the path of a
\* file that the call moved away
C19_MovedFingerprintDeleted ==
    [][CleanStep(FALSE) =>
          \A fp \in Stored' :
              ~(files[fp.Metadata.Path] # NoFile /\ files'[fp.Metadata.Path] = NoFile)]_vars

\* C20: a live CleanDuplicates counts every failed move in report.Errors and
\* every file it moved, and only those, in report.MovedFiles
C20_FailedMoveRecorded ==
    [][\A options \in CleanOptions, env \in Refusals :
          \A order \in Orders(hashGroupKeys(GetAllFingerprints)) :
              (/\ ~options.DryRun
               /\ CleanDuplicates(options, env)
               /\ files' = cleanRun(options, order, env).files) =>
                  /\ report'.Errors = cleanRun(options, order, env).warned
                  /\ report'.MovedFiles =
                         Cardinality({p \in Paths : files[p] # NoFile /\ files'[p] = NoFile})]_vars

(***************************************************************************)
(* The selection policy of a clean.  CleanDuplicates takes its groups from *)
(* FindExactDuplicates() and FindNearDuplicates(threshold), which pass     *)
(* api.PolicyHighestQuality to selectBestImage: options.SelectionPolicy is *)
(* read nowhere.                                                           *)
(***************************************************************************)
SelectionPolicies ==
    {PolicyHighestQuality, PolicyHighestResolution, PolicyBestExposure, PolicyOldest,
     PolicyNewest}

\* the groups a CleanDuplicates with options.SelectionPolicy = policy works on
exactGroupsOfClean(policy) == FindExactDuplicates

nearGroupsOfClean(policy, threshold) == FindNearDuplicates(threshold)

\* no member of the group has a higher policy score than its main image
MainIsBest(stored, group, policy) ==
    \A m \in Members(group) :
        calculateImageScore(ByID(stored, m), policy)
            <= calculateImageScore(ByID(stored, group.MainImage), policy)

\* C21: under every selection policy a caller configures, the main image of
\* every exact and every near group is a member whose policy score no other
\* member exceeds
C21_MainPerPolicy ==
    LET stored == Stored
    IN  \A policy \in SelectionPolicies :
            /\ \A groups \in exactGroupsOfClean(policy) : \A i \in 1..Len(groups) :
                   MainIsBest(stored, groups[i], policy)
            /\ \A threshold \in Thresholds :
                   LET groups == nearGroupsOfClean(policy, threshold)
                   IN  \A i \in 1..Len(groups) : MainIsBest(stored, groups[i], policy)

\* among the members that tie with the main image on the score of the
\* policy in use, none has a smaller path than the main image
MainHasSmallestPath(stored, group) ==
    \A m \in Members(group) :
        calculateImageScore(ByID(stored, m), PolicyHighestQuality)
              = calculateImageScore(ByID(stored, group.MainImage), PolicyHighestQuality)
            => ByID(stored, group.MainImage).Metadata.Path <= ByID(stored, m).Metadata.Path

\* C22: when members of a group tie on the selection score, the main image
\* is the tied member with the smallest path, whatever the order of the
\* fingerprints in the index
C22_TieBrokenByPath ==
    LET stored == Stored
    IN  /\ \A groups \in FindExactDuplicates : \A i \in 1..Len(groups) :
               MainHasSmallestPath(stored, groups[i])
        /\ \A threshold \in Thresholds :
               LET groups == FindNearDuplicates(threshold)
               IN  \A i \in 1..Len(groups) : MainHasSmallestPath(stored, groups[i])

(***************************************************************************)
(* The comparator called on two fingerprints (internal/similarity), with   *)
(* the default weights that NewEngine's configuration leads to.            *)
(***************************************************************************)
\* the values a perceptual hash takes: absent, and two values at Hamming
\* distance 9 from each other
HashValues == {0, 1, 1023}

PerceptualHashes ==
    [AHash : HashValues, PHash : HashValues, DHash : HashValues, WHash : HashValues]

\* the fingerprint with these hashes
WithHashes(h) == [ZeroFingerprint EXCEPT !.PHashes = h]

\* similarity, err := comparator.CompareFingerprints(fp1, fp2), once, on any
\* two fingerprints
CompareCall ==
    /\ cmp = NoCompare
    /\ \E h1, h2 \in PerceptualHashes :
          cmp' = [fp1 |-> h1, fp2 |-> h2,
                  similarity |-> CompareFingerprints(WithHashes(h1), WithHashes(h2))]
    /\ UNCHANGED <<storeVars, files, clock, calls, ret, backendVars, engineVars, analysis,
                   poolVars>>

NextCompare == CompareCall

SpecCompare == Init /\ [][NextCompare]_vars

\* kinds that are non-zero in both fingerprints
Participating(h1, h2) ==
    {t \in HashTypes : HashOf(WithHashes(h1), t) # 0 /\ HashOf(WithHashes(h2), t) # 0}

\* h with the hash of kind t replaced by v
SetHash(h, t, v) ==
    CASE t = "ahash" -> [h EXCEPT !.AHash = v]
      [] t = "phash" -> [h EXCEPT !.PHash = v]
      [] t = "dhash" -> [h EXCEPT !.DHash = v]
      [] t = "whash" -> [h EXCEPT !.WHash = v]

\* C23: a fingerprint with at least one non-zero hash has similarity exactly
\* 1 to itself
C23_SelfSimilarityIsOne ==
    (cmp.fp1 = cmp.fp2 /\ cmp.fp1 # ZeroHashes) => cmp.similarity.num = cmp.similarity.den

\* a fingerprint with zero and non-zero kinds was compared with itself
C23_Witness ==
    /\ cmp.fp1 = cmp.fp2
    /\ cmp.fp1.AHash = 0 /\ cmp.fp1.DHash = 0
    /\ cmp.fp1.PHash # 0 /\ cmp.fp1.WHash # 0

\* C24: a kind that is zero on one side does not enter the similarity, which
\* is then the same whatever the other side's hash of that kind, and the
\* similarity is 0 when no kind is non-zero on both sides
C24_ZeroHashExcluded ==
    cmp # NoCompare =>
        /\ \A t \in HashTypes, v \in HashValues :
              /\ HashOf(WithHashes(cmp.fp1), t) = 0 =>
                     CompareFingerprints(WithHashes(cmp.fp1),
                                         WithHashes(SetHash(cmp.fp2, t, v))) = cmp.similarity
              /\ HashOf(WithHashes(cmp.fp2), t) = 0 =>
                     CompareFingerprints(WithHashes(SetHash(cmp.fp1, t, v)),
                                         WithHashes(cmp.fp2)) = cmp.similarity
        /\ Participating(cmp.fp1, cmp.fp2) = {} => cmp.similarity.num = 0

\* a kind is zero on one side only while another kind takes part, and the
\* two fingerprints differ in the kind that takes part
C24_Witness ==
    /\ cmp.fp1.AHash = 0 /\ cmp.fp2.AHash = 1023
    /\ cmp.fp1.PHash = 1 /\ cmp.fp2.PHash = 1023
    /\ Participating(cmp.fp1, cmp.fp2) = {"phash"}

(***************************************************************************)
(* C25 - the confidence of every group FindNearDuplicates returns is the   *)
(* mean of CompareFingerprints over the unordered pairs of its members,    *)
(* and lies between 0 and 1.                                               *)
(***************************************************************************)
\* the unordered pairs of a set of ids
PairsOf(S) == {pr \in SUBSET S : Cardinality(pr) = 2}

\* the similarity of the two stored fingerprints of a pair, in units of
\* 1/(640 * 2520)
PairSimilarity(stored, pr) ==
    LET a == CHOOSE m \in pr : TRUE
        b == CHOOSE m \in pr : m # a
    IN  inUnits(CompareFingerprints(ByID(stored, a), ByID(stored, b)))

RECURSIVE SumSimilarity(_, _)
SumSimilarity(stored, prs) ==
    IF prs = {} THEN 0
    ELSE LET pr == CHOOSE x \in prs : TRUE
         IN  PairSimilarity(stored, pr) + SumSimilarity(stored, prs \ {pr})

\* C25: the confidence of every near group is the sum of the pairwise
\* similarities of its members divided by the number of pairs, and is in [0,1]
C25_ConfidenceIsPairwiseMean ==
    LET stored == Stored
    IN  \A threshold \in Thresholds :
            LET groups == FindNearDuplicates(threshold)
            IN  \A i \in 1..Len(groups) :
                    LET prs == PairsOf(Members(groups[i]))
                        c   == groups[i].Confidence
                        k   == c.den \div (640 * 2520)
                    IN  /\ c.den = k * (640 * 2520)
                        /\ c.num * Cardinality(prs) = SumSimilarity(stored, prs) * k
                        /\ 0 <= c.num
                        /\ c.num <= c.den

\* a group of three whose pairs do not all have the same similarity
C25_Witness ==
    LET stored == Stored
    IN  \E threshold \in Thresholds :
            LET groups == FindNearDuplicates(threshold)
            IN  \E i \in 1..Len(groups) :
                    LET prs == PairsOf(Members(groups[i]))
                    IN  /\ Cardinality(prs) = 3
                        /\ \E p1, p2 \in prs :
                              PairSimilarity(stored, p1) # PairSimilarity(stored, p2)

(***************************************************************************)
(* Quality analyzer (internal/quality/analyzer.go).  A metric is a number  *)
(* of thousandths, FinalScore a number of thousandths of a point; a        *)
(* quotient is rounded down and a square root is the integer square root.  *)
(* An image is its bounds (Min = (0,0)) and a 2x2 tile of 8-bit colours    *)
(* repeated over it; a loop over pixels is summed per tile position.       *)
(***************************************************************************)
ImageSides == {0, 2, 3, 100}

Colours == {<<0, 0, 0>>, <<255, 255, 255>>, <<255, 0, 0>>, <<128, 128, 128>>}

Images == [Dx : ImageSides, Dy : ImageSides, tile : [{0, 1} \X {0, 1} -> Colours]]

At(img, x, y) == img.tile[<<x % 2, y % 2>>]

\* color.GrayModel of an opaque colour with 16-bit channels c * 257:
\* (19595 r + 38470 g + 7471 b + 1<<15) >> 24
grayModel(c) ==
    LET w == 19595 * c[1] + 38470 * c[2] + 7471 * c[3]
        h == w \div 65536
        l == w % 65536
    IN  h + ((65536 * h + 257 * l + 32768) \div 16777216)

\* toGray followed by GrayAt(x, y).Y
GrayAt(img, x, y) == grayModel(At(img, x, y))

\* the sum of f over the pixels xs \X ys; f depends on the tile position only
pixelSum(xs, ys, f(_, _)) ==
    LET n(S, c) == Cardinality({v \in S : v % 2 = c})
    IN    n(xs, 0) * n(ys, 0) * f(2, 2) + n(xs, 1) * n(ys, 0) * f(3, 2)
        + n(xs, 0) * n(ys, 1) * f(2, 3) + n(xs, 1) * n(ys, 1) * f(3, 3)

RECURSIVE sqrtLoop(_, _, _)
sqrtLoop(n, lo, hi) ==
    IF lo >= hi THEN lo
    ELSE LET mid == (lo + hi + 1) \div 2
         IN  IF mid * mid <= n THEN sqrtLoop(n, mid, hi) ELSE sqrtLoop(n, lo, mid - 1)

\* math.Sqrt, rounded down
Sqrt(n) == sqrtLoop(n, 0, 46340)

\* a variant without the clamp to 1.0
analyzeSharpnessUnclamped(img) ==
    IF img.Dx < 3 \/ img.Dy < 3 THEN [v |-> 0, err |-> "ErrImageTooSmall"]
    ELSE LET laplacian(x, y) ==
                 Abs(4 * GrayAt(img, x, y)
                     - (GrayAt(img, x, y - 1) + GrayAt(img, x, y + 1)
                        + GrayAt(img, x - 1, y) + GrayAt(img, x + 1, y)))
             sum   == pixelSum(1..(img.Dx - 2), 1..(img.Dy - 2), laplacian)
             count == (img.Dx - 2) * (img.Dy - 2)
         IN  IF count = 0 THEN [v |-> 0, err |-> "nil"]
             ELSE [v |-> (sum * 10) \div count, err |-> "nil"]

analyzeSharpness(img) ==
    IF img.Dx < 3 \/ img.Dy < 3 THEN [v |-> 0, err |-> "ErrImageTooSmall"]
    ELSE LET laplacian(x, y) ==
                 Abs(4 * GrayAt(img, x, y)
                     - (GrayAt(img, x, y - 1) + GrayAt(img, x, y + 1)
                        + GrayAt(img, x - 1, y) + GrayAt(img, x + 1, y)))
             sum   == pixelSum(1..(img.Dx - 2), 1..(img.Dy - 2), laplacian)
             count == (img.Dx - 2) * (img.Dy - 2)
         IN  IF count = 0 THEN [v |-> 0, err |-> "nil"]
             ELSE [v |-> Min((sum * 10) \div count, 1000), err |-> "nil"]

\* the offsets of the eight entries of neighbors, in the order of the code
Neighbours ==
    << <<-1, -1>>, <<0, -1>>, <<1, -1>>, <<-1, 0>>, <<1, 0>>, <<-1, 1>>, <<0, 1>>, <<1, 1>> >>

\* the sum of f over the eight neighbours
sumNeighbours(f(_)) ==
    f(Neighbours[1]) + f(Neighbours[2]) + f(Neighbours[3]) + f(Neighbours[4])
        + f(Neighbours[5]) + f(Neighbours[6]) + f(Neighbours[7]) + f(Neighbours[8])

analyzeNoise(img) ==
    IF img.Dx < 3 \/ img.Dy < 3 THEN [v |-> 0, err |-> "ErrImageTooSmall"]
    ELSE LET \* 8 * mean of the neighbours
             mean8(x, y) ==
                 LET g(o) == GrayAt(img, x + o[1], y + o[2]) IN sumNeighbours(g)
             \* sqrt(variance) of the neighbours, in hundredths
             deviation(x, y) ==
                 LET m == mean8(x, y)
                     sq(o) == (8 * GrayAt(img, x + o[1], y + o[2]) - m)
                                  * (8 * GrayAt(img, x + o[1], y + o[2]) - m)
                 IN  Sqrt((sumNeighbours(sq) \div 32) * 625)
             \* gradient < 10
             smooth(x, y) == Abs(8 * GrayAt(img, x, y) - mean8(x, y)) < 80
             noise(x, y) == IF smooth(x, y) THEN deviation(x, y) ELSE 0
             one(x, y)   == IF smooth(x, y) THEN 1 ELSE 0
             noiseSum == pixelSum(1..(img.Dx - 2), 1..(img.Dy - 2), noise)
             count    == pixelSum(1..(img.Dx - 2), 1..(img.Dy - 2), one)
         IN  IF count = 0 THEN [v |-> 500, err |-> "nil"]
             ELSE [v |-> Min(noiseSum \div (5 * count), 1000), err |-> "nil"]

analyzeExposure(img) ==
    LET totalPixels == img.Dx * img.Dy
        xs == 0..(img.Dx - 1)
        ys == 0..(img.Dy - 1)
        luminance(x, y) == GrayAt(img, x, y)
        dark(x, y)   == IF 10 * GrayAt(img, x, y) < 255 THEN 1 ELSE 0
        bright(x, y) == IF 10 * GrayAt(img, x, y) > 9 * 255 THEN 1 ELSE 0
    IN  IF totalPixels = 0 THEN [v |-> 500, err |-> "nil"]
        ELSE LET avgLuminance == (pixelSum(xs, ys, luminance) * 200) \div (51 * totalPixels)
                 darkRatio    == (pixelSum(xs, ys, dark) * 1000) \div totalPixels
                 brightRatio  == (pixelSum(xs, ys, bright) * 1000) \div totalPixels
                 e1 == IF darkRatio > 300
                       THEN avgLuminance - ((darkRatio - 300) \div 2) ELSE avgLuminance
                 e2 == IF brightRatio > 300 THEN e1 + ((brightRatio - 300) \div 2) ELSE e1
             IN  [v |-> Max(0, Min(1000, e2)), err |-> "nil"]

analyzeContrast(img) ==
    LET totalPixels == img.Dx * img.Dy
        xs == 0..(img.Dx - 1)
        ys == 0..(img.Dy - 1)
        value(x, y)  == GrayAt(img, x, y)
        square(x, y) == GrayAt(img, x, y) * GrayAt(img, x, y)
    IN  IF totalPixels = 0 THEN [v |-> 500, err |-> "nil"]
        ELSE LET mean     == pixelSum(xs, ys, value) \div totalPixels
                 variance == (pixelSum(xs, ys, square) \div totalPixels) - mean * mean
                 \* in hundredths of a grey level
                 stdDev   == Sqrt(Max(0, variance) * 10000)
             IN  [v |-> Min((stdDev * 10) \div 102, 1000), err |-> "nil"]

analyzeCompression(img) ==
    IF img.Dx < 100 \/ img.Dy < 100 THEN [v |-> 100, err |-> "nil"]
    ELSE [v |-> 300, err |-> "nil"]

\* rAvg / maxChannel is computed as rSum / max sum: sampledPixels cancels
analyzeColorCast(img) ==
    LET totalPixels == img.Dx * img.Dy
        xs == {x \in 0..(img.Dx - 1) : x % 4 = 0}
        ys == {y \in 0..(img.Dy - 1) : y % 4 = 0}
        r(x, y) == At(img, x, y)[1]
        g(x, y) == At(img, x, y)[2]
        b(x, y) == At(img, x, y)[3]
    IN  IF totalPixels = 0 THEN [v |-> 0, err |-> "nil"]
        ELSE LET rSum == pixelSum(xs, ys, r)
                 gSum == pixelSum(xs, ys, g)
                 bSum == pixelSum(xs, ys, b)
                 maxChannel == Max(Max(rSum, gSum), bSum)
             IN  IF maxChannel = 0 THEN [v |-> 0, err |-> "nil"]
                 ELSE LET rNorm == (rSum * 1000) \div maxChannel
                          gNorm == (gSum * 1000) \div maxChannel
                          bNorm == (bSum * 1000) \div maxChannel
                      IN  [v |-> Sqrt(((1000 - rNorm) * (1000 - rNorm)
                                       + (1000 - gNorm) * (1000 - gNorm)
                                       + (1000 - bNorm) * (1000 - bNorm)) \div 3),
                           err |-> "nil"]

\* the weights are hundredths, the result thousandths of a point
calculateFinalScore(quality) ==
    LET exposureScore == 1000 - Abs(quality.Exposure - 500) * 2
        score == quality.Sharpness * 30
                 + (1000 - quality.Noise) * 25
                 + exposureScore * 20
                 + quality.Contrast * 15
                 + (1000 - quality.Compression) * 5
                 + (1000 - quality.ColorCast) * 5
    IN  Max(0, Min(100000, score))

\* Analyze: the quality record and the sub-analyses that returned an error
Analyze(img) ==
    LET results == [Sharpness   |-> analyzeSharpness(img),
                    Noise       |-> analyzeNoise(img),
                    Exposure    |-> analyzeExposure(img),
                    Contrast    |-> analyzeContrast(img),
                    Compression |-> analyzeCompression(img),
                    ColorCast   |-> analyzeColorCast(img)]
        metrics == [m \in DOMAIN results |-> results[m].v]
    IN  [quality |-> [Sharpness |-> metrics.Sharpness, Noise |-> metrics.Noise,
                      Exposure |-> metrics.Exposure, Contrast |-> metrics.Contrast,
                      Compression |-> metrics.Compression, ColorCast |-> metrics.ColorCast,
                      FinalScore |-> calculateFinalScore(metrics)],
         warned  |-> {m \in DOMAIN results : results[m].err # "nil"},
         err     |-> "nil"]

AnalyzeCall ==
    /\ analysis = NoAnalysis
    /\ \E img \in Images :
          LET a == Analyze(img)
          IN  analysis' = [called |-> TRUE, img |-> img,
                           quality |-> a.quality, warned |-> a.warned]
    /\ UNCHANGED <<storeVars, files, clock, calls, ret, backendVars, engineVars, cmp, poolVars>>

NextAnalyze == AnalyzeCall

SpecAnalyze == Init /\ [][NextAnalyze]_vars

Metrics == {"Sharpness", "Noise", "Exposure", "Contrast", "Compression", "ColorCast"}

\* C26: after Analyze, each of the six metrics is in [0,1] and FinalScore is
\* greater than 0 and at most 100, also when a sub-analysis failed and its
\* zero value was kept
C26_QualityInRange ==
    analysis.called =>
        /\ \A m \in Metrics : analysis.quality[m] >= 0 /\ analysis.quality[m] <= 1000
        /\ analysis.quality.FinalScore > 0
        /\ analysis.quality.FinalScore <= 100000

\* an image too small for the sharpness and the noise analysis, analysed
C26_Witness ==
    /\ analysis.called
    /\ analysis.warned = {"Sharpness", "Noise"}
    /\ analysis.quality.Sharpness = 0
    /\ analysis.quality.FinalScore > 0

(***************************************************************************)
(* C27 - a live CleanDuplicates moves no file of an exact group whose      *)
(* files do not all exist with the bytes of the main image's file.         *)
(***************************************************************************)
\* the files of all members of the group exist in fs and have the same bytes
GroupVerifies(stored, fs, group) ==
    \A m \in Members(group) :
        /\ fs[ByID(stored, m).Metadata.Path] # NoFile
        /\ fs[ByID(stored, group.MainImage).Metadata.Path] # NoFile
        /\ fs[ByID(stored, m).Metadata.Path].bytes
               = fs[ByID(stored, group.MainImage).Metadata.Path].bytes

\* the step takes the file at path p away
MovedAway(p) == files[p] # NoFile /\ files'[p] = NoFile

\* C27: when the files of an exact group are not byte-equal at the start of
\* a live CleanDuplicates (so that its verification fails whenever it is
\* made during the call), the call moves no file of that group
C27_UnverifiedGroupNotMoved ==
    [][CleanStep(FALSE) =>
          LET stored == Stored
          IN  \A groups \in FindExactDuplicates : \A i \in 1..Len(groups) :
                  ~GroupVerifies(stored, files, groups[i]) =>
                      \A m \in Members(groups[i]) :
                          ~MovedAway(ByID(stored, m).Metadata.Path)]_vars

\* C28: a live CleanDuplicates moves away the file of no main image, neither
\* of an exact group nor of a near group at the threshold of the call
C28_MainImageStays ==
    [][\A options \in CleanOptions, env \in Refusals :
          (~options.DryRun /\ CleanDuplicates(options, env)) =>
              LET stored == Stored
                  near   == FindNearDuplicates(options.MaxSimilarityThreshold)
              IN  /\ \A groups \in FindExactDuplicates : \A i \in 1..Len(groups) :
                         ~MovedAway(ByID(stored, groups[i].MainImage).Metadata.Path)
                  /\ \A i \in 1..Len(near) :
                         ~MovedAway(ByID(stored, near[i].MainImage).Metadata.Path)]_vars

(***************************************************************************)
(* Scanner.ScanFolder as its goroutines (internal/scanner/scanner.go): the *)
(* caller ranging over errors, the directory walker, the workers and the   *)
(* goroutine that closes errors after wg.Wait().                           *)
(***************************************************************************)
\* config.NumWorkers of the scanner
ScanWorkers == 2

\* the entries filepath.Walk visits after the root
MaxEntries == 3

\* what an entry is to the walk: a directory, a directory that
\* processDirectory cannot read, or an entry reported with err != nil
EntryKinds == {"dir", "baddir", "denied"}

Trees == UNION {[1..n -> EntryKinds] : n \in 0..MaxEntries}

\* ctx.Err() once the context is done
ContextErrors == {"Canceled", "DeadlineExceeded"}

\* the state ScanFolder sets up at lines 88-109: the channels with capacity
\* NumWorkers*2, the workers started, the walker and the closer started
scannerStart(tree) ==
    [pc |-> "running", tree |-> <<"dir">> \o tree, i |-> 1,
     ctxErr |-> "nil",
     jobs |-> <<>>, jobsClosed |-> FALSE,
     errors |-> 0, errorsClosed |-> FALSE,
     walker |-> "visit", walkErr |-> "nil",
     workers |-> [w \in 1..ScanWorkers |-> [pc |-> "range", dir |-> "nil"]],
     wg |-> ScanWorkers,
     closer |-> "wait",
     caller |-> "range", scanErrors |-> 0,
     panic |-> "nil"]

Live == walk.pc = "running" /\ walk.panic = "nil"

WalkFrame ==
    UNCHANGED <<storeVars, files, clock, calls, ret, backendVars, engineVars, libVars, pool>>

ScannerScanFolder ==
    /\ walk = NoWalk
    /\ \E tree \in Trees : walk' = scannerStart(tree)
    /\ WalkFrame

\* the caller cancels the context, or its deadline passes
CancelWalk ==
    /\ Live
    /\ walk.ctxErr = "nil"
    /\ walk.caller = "range"
    /\ \E e \in ContextErrors : walk' = [walk EXCEPT !.ctxErr = e]
    /\ WalkFrame

\* the callback of filepath.Walk on the next entry, up to its send on jobs
WalkerVisit ==
    /\ Live
    /\ walk.walker = "visit"
    /\ IF walk.i > Len(walk.tree)
       THEN walk' = [walk EXCEPT !.walker = "after", !.walkErr = "nil"]
       ELSE IF walk.tree[walk.i] = "denied"
       THEN IF walk.errorsClosed
            THEN walk' = [walk EXCEPT !.panic = "send on closed channel"]
            ELSE /\ walk.errors < ScanWorkers * 2
                 /\ walk' = [walk EXCEPT !.errors = @ + 1, !.i = @ + 1]
       ELSE IF walk.ctxErr # "nil"
       THEN walk' = [walk EXCEPT !.walker = "after", !.walkErr = walk.ctxErr]
       ELSE walk' = [walk EXCEPT !.walker = "send"]
    /\ WalkFrame

\* jobs <- path
WalkerSendJob ==
    /\ Live
    /\ walk.walker = "send"
    /\ Len(walk.jobs) < ScanWorkers * 2
    /\ walk' = [walk EXCEPT !.jobs = Append(@, walk.tree[walk.i]), !.i = @ + 1,
                            !.walker = "visit"]
    /\ WalkFrame

\* after filepath.Walk: the error that is not context.Canceled is sent
WalkerAfter ==
    /\ Live
    /\ walk.walker = "after"
    /\ IF walk.walkErr \notin {"nil", "Canceled"}
       THEN IF walk.errorsClosed
            THEN walk' = [walk EXCEPT !.panic = "send on closed channel"]
            ELSE /\ walk.errors < ScanWorkers * 2
                 /\ walk' = [walk EXCEPT !.errors = @ + 1, !.walker = "close"]
       ELSE walk' = [walk EXCEPT !.walker = "close"]
    /\ WalkFrame

\* defer close(jobs)
WalkerCloseJobs ==
    /\ Live
    /\ walk.walker = "close"
    /\ walk' = [walk EXCEPT !.jobsClosed = TRUE, !.walker = "done"]
    /\ WalkFrame

\* for dir := range jobs: a job is received, or jobs is closed and drained
\* and the worker returns through wg.Done()
WorkerRange(w) ==
    /\ Live
    /\ walk.workers[w].pc = "range"
    /\ IF Len(walk.jobs) > 0
       THEN walk' = [walk EXCEPT !.jobs = Tail(@),
                                 !.workers[w] = [pc |-> "select", dir |-> Head(walk.jobs)]]
       ELSE /\ walk.jobsClosed
            /\ walk' = [walk EXCEPT !.workers[w] = [pc |-> "done", dir |-> "nil"],
                                    !.wg = @ - 1]
    /\ WalkFrame

\* the select of the worker: return on ctx.Done(), else processDirectory
WorkerSelect(w) ==
    /\ Live
    /\ walk.workers[w].pc = "select"
    /\ IF walk.ctxErr # "nil"
       THEN walk' = [walk EXCEPT !.workers[w] = [pc |-> "done", dir |-> "nil"], !.wg = @ - 1]
       ELSE IF walk.workers[w].dir = "baddir"
       THEN walk' = [walk EXCEPT !.workers[w].pc = "send"]
       ELSE walk' = [walk EXCEPT !.workers[w] = [pc |-> "range", dir |-> "nil"]]
    /\ WalkFrame

\* errors <- fmt.Errorf("worker %d: %w", id, err)
WorkerSendError(w) ==
    /\ Live
    /\ walk.workers[w].pc = "send"
    /\ IF walk.errorsClosed
       THEN walk' = [walk EXCEPT !.panic = "send on closed channel"]
       ELSE /\ walk.errors < ScanWorkers * 2
            /\ walk' = [walk EXCEPT !.errors = @ + 1,
                                    !.workers[w] = [pc |-> "range", dir |-> "nil"]]
    /\ WalkFrame

\* go func() { wg.Wait(); close(errors) }()
Closer ==
    /\ Live
    /\ walk.closer = "wait"
    /\ walk.wg = 0
    /\ walk' = [walk EXCEPT !.errorsClosed = TRUE, !.closer = "done"]
    /\ WalkFrame

\* for err := range errors: an error is received, or errors is closed and
\* drained and ScanFolder returns
CallerRange ==
    /\ Live
    /\ walk.caller = "range"
    /\ IF walk.errors > 0
       THEN walk' = [walk EXCEPT !.errors = @ - 1, !.scanErrors = @ + 1]
       ELSE /\ walk.errorsClosed
            /\ walk' = [walk EXCEPT !.caller = "returned"]
    /\ WalkFrame

NextWalk ==
    \/ ScannerScanFolder
    \/ CancelWalk
    \/ WalkerVisit
    \/ WalkerSendJob
    \/ WalkerAfter
    \/ WalkerCloseJobs
    \/ \E w \in 1..ScanWorkers : WorkerRange(w)
    \/ \E w \in 1..ScanWorkers : WorkerSelect(w)
    \/ \E w \in 1..ScanWorkers : WorkerSendError(w)
    \/ Closer
    \/ CallerRange

SpecWalk == Init /\ [][NextWalk]_vars

\* C29: no goroutine of a scan sends on errors after close(errors): the
\* scan never panics, whatever the interleaving and the cancellation
C29_NoSendAfterClose == walk.pc = "running" => walk.panic = "nil"

(***************************************************************************)
(* WorkerPool (internal/scanner): ProcessBatch on a started pool, with a   *)
(* context that is never done, so that the ctx.Done() cases of the selects *)
(* are never taken.  Nothing sends on wp.errors.                           *)
(***************************************************************************)
\* numWorkers of the pool
PoolWorkers == 2

\* the longest batch
MaxBatch == 11

\* NewWorkerPool(numWorkers) and Start, then ProcessBatch called with
\* len paths; a job and its result are written as the job's ID
newWorkerPool(len) ==
    [pc |-> "running", len |-> len,
     jobs |-> <<>>, results |-> <<>>,
     workers |-> [w \in 1..PoolWorkers |-> [pc |-> "select", job |-> -1]],
     caller |-> "submit", i |-> 0, collected |-> <<>>]

PoolFrame ==
    UNCHANGED <<storeVars, files, clock, calls, ret, backendVars, engineVars, libVars, walk>>

ProcessBatch ==
    /\ pool = NoPool
    /\ \E len \in 0..MaxBatch : pool' = newWorkerPool(len)
    /\ PoolFrame

\* the first loop of ProcessBatch: wp.SubmitJob(job) blocks while jobs is full
SubmitJob ==
    /\ pool.pc = "running"
    /\ pool.caller = "submit"
    /\ IF pool.i >= pool.len
       THEN pool' = [pool EXCEPT !.caller = "collect", !.i = 0]
       ELSE /\ Len(pool.jobs) < PoolWorkers * 2
            /\ pool' = [pool EXCEPT !.jobs = Append(@, pool.i), !.i = @ + 1]
    /\ PoolFrame

\* the select of the worker receives a job; processJob builds its result
WorkerReceive(w) ==
    /\ pool.pc = "running"
    /\ pool.workers[w].pc = "select"
    /\ Len(pool.jobs) > 0
    /\ pool' = [pool EXCEPT !.jobs = Tail(@),
                            !.workers[w] = [pc |-> "send", job |-> Head(pool.jobs)]]
    /\ PoolFrame

\* the select at the end of processJob: wp.results <- result blocks while
\* results is full
WorkerSendResult(w) ==
    /\ pool.pc = "running"
    /\ pool.workers[w].pc = "send"
    /\ Len(pool.results) < PoolWorkers * 2
    /\ pool' = [pool EXCEPT !.results = Append(@, pool.workers[w].job),
                            !.workers[w] = [pc |-> "select", job |-> -1]]
    /\ PoolFrame

\* the second loop of ProcessBatch: one receive from results per path
CollectResult ==
    /\ pool.pc = "running"
    /\ pool.caller = "collect"
    /\ IF pool.i >= pool.len
       THEN pool' = [pool EXCEPT !.caller = "returned"]
       ELSE /\ Len(pool.results) > 0
            /\ pool' = [pool EXCEPT !.results = Tail(@),
                                    !.collected = Append(@, Head(pool.results)),
                                    !.i = @ + 1]
    /\ PoolFrame

PoolStep ==
    \/ SubmitJob
    \/ \E w \in 1..PoolWorkers : WorkerReceive(w)
    \/ \E w \in 1..PoolWorkers : WorkerSendResult(w)
    \/ CollectResult

NextPool ==
    \/ ProcessBatch
    \/ SubmitJob
    \/ \E w \in 1..PoolWorkers : WorkerReceive(w)
    \/ \E w \in 1..PoolWorkers : WorkerSendResult(w)
    \/ CollectResult

SpecPool == Init /\ [][NextPool]_vars

\* C30: ProcessBatch never stops before it has returned, whatever the batch
\* size, and what it returns is one Result per submitted path
C30_ProcessBatchTerminates ==
    pool.pc = "running" =>
        /\ pool.caller # "returned" => ENABLED PoolStep
        /\ pool.caller = "returned" =>
               /\ Len(pool.collected) = pool.len
               /\ \A id \in 0..(pool.len - 1) :
                      Cardinality({k \in 1..Len(pool.collected) : pool.collected[k] = id}) = 1

====
